---- MODULE Spec2Model ----
(***************************************************************************)
(* QuadChat front end (quadchat_app/frontend/js/quadchat.js): the          *)
(* multi-provider dispatch cycle, the panel renderer and the API-key alert *)
(* aggregator, as a state machine over the module-level state of the page. *)
(*                                                                         *)
(* Strings are sequences of tokens: "gpt-5.2" is <<"gpt", "-5.2">>, so     *)
(* String.includes is membership of a token and join/concatenation is \o.  *)
(* A JavaScript Set is a sequence without repetition: Array.from and       *)
(* forEach visit it in insertion order.                                    *)
(*                                                                         *)
(* Two more programs of the repository are modelled on variables of their  *)
(* own: the legacy page (legacy/js/app_new.js: regeneration, clear and     *)
(* undo) and the service worker (ashergo/frontend/service-worker.js).      *)
(***************************************************************************)
EXTENDS Integers, Sequences, FiniteSets, Bags, TLC

\* ---------------------------------------------------------------- bounds
MaxOps == 3        \* user operations (toggle, model, tab, home) per behaviour
MaxCycles == 1     \* sendMessage invocations per behaviour
MaxConvs == 2      \* conversations the store can hold
MaxSignals == 4    \* alert signals per behaviour of SpecAlert
MaxMsgs == 3       \* length of a canonical message list of SpecRender
MaxDocs == 1       \* reference documents attached at one time
MaxOverlaps == 1   \* sendMessage invocations that overlap a running one, per behaviour
MaxLegacyOps == 4  \* user operations on the legacy page per behaviour
MaxFetches == 3    \* fetch events the service worker handles per behaviour

\* ------------------------------------------------------- provider registry
NULL == "null"

\* the keys of PROVIDER_INFO, in the order ['1', '2', '3', '4'] the code lists them
SlotOrder == <<"1", "2", "3", "4">>

Slots == {"1", "2", "3", "4"}

PROVIDER_INFO ==
    [n \in Slots |->
        CASE n = "1" -> [id |-> "openai", name |-> "ChatGPT", defaultModel |-> <<"gpt", "-5.2">>]
          [] n = "2" -> [id |-> "claude", name |-> "Claude", defaultModel |-> <<"claude", "-sonnet-4-5-20250929">>]
          [] n = "3" -> [id |-> "gemini", name |-> "Gemini", defaultModel |-> <<"gemini", "-3-pro-preview">>]
          [] n = "4" -> [id |-> "grok", name |-> "Grok", defaultModel |-> <<"grok", "-4-0709">>]]

DefaultModels == [n \in Slots |-> PROVIDER_INFO[n].defaultModel]

\* String.prototype.includes on token strings
Includes(str, kw) == \E i \in 1..Len(str) : str[i] = kw

Range(s) == {s[i] : i \in 1..Len(s)}

\* Set.prototype.add / delete / has, insertion order kept
SetAdd(S, x) == IF x \in Range(S) THEN S ELSE Append(S, x)

SetDelete(S, x) == SelectSeq(S, LAMBDA y : y # x)

SetHas(S, x) == x \in Range(S)

\* ------------------------------------------------------------ the renderer
\* a falsy model (null, undefined, '') is the empty token string
NoModel == <<>>

\* a getProviderPanel that gives slot 1 to a model it does not know
getProviderPanelDefaultFirst(model) ==
    IF model = NoModel THEN NULL
    ELSE IF Includes(model, "claude") THEN "2"
    ELSE IF Includes(model, "gemini") THEN "3"
    ELSE IF Includes(model, "grok") THEN "4"
    ELSE "1"

getProviderPanel(model) ==
    IF model = NoModel THEN NULL
    ELSE IF Includes(model, "openai") \/ Includes(model, "gpt") THEN "1"
    ELSE IF Includes(model, "claude") THEN "2"
    ELSE IF Includes(model, "gemini") THEN "3"
    ELSE IF Includes(model, "grok") THEN "4"
    ELSE NULL

matchesProvider(model, tab) == getProviderPanel(model) = tab

\* a DOM child of a messages container: div.message-bubble.<role>, its text, its id
Bubble(role, content) == [role |-> role, content |-> content, id |-> <<>>]

LoadingBubble(id) == [role |-> "loading", content |-> <<"Thinking...">>, id |-> id]

\* addMessageToPanel on the containers messages-1 .. messages-4
addMessageToPanel(ps, panelNum, role, content) ==
    [ps EXCEPT ![panelNum] = Append(@, Bubble(role, content))]

EmptyPanels == [n \in Slots |-> <<>>]

\* a first pass that records every slot as having replied to every user message
RenderPass1AllSlots(messages, i) ==
    [k \in 1..Cardinality({j \in 1..i : messages[j].role = "user"}) |-> Slots]

\* first pass of renderMessages: userMessageProviders, a sequence indexed by
\* userMsgIndex + 1, built from the first i messages
RECURSIVE RenderPass1(_, _)
RenderPass1(messages, i) ==
    IF i = 0 THEN <<>>
    ELSE LET ump == RenderPass1(messages, i - 1)
             msg == messages[i]
             panelNum == getProviderPanel(msg.model)
         IN  IF msg.role = "user" THEN Append(ump, {})
             ELSE IF msg.role = "assistant" /\ Len(ump) >= 1 /\ panelNum # NULL
                  THEN [ump EXCEPT ![Len(ump)] = @ \cup {panelNum}]
             ELSE ump

\* second pass: the panels and userMsgIndex + 1 after the first i messages
RECURSIVE RenderPass2(_, _, _, _)
RenderPass2(messages, enabled, ump, i) ==
    IF i = 0 THEN [ps |-> EmptyPanels, idx |-> 0]
    ELSE LET r == RenderPass2(messages, enabled, ump, i - 1)
             msg == messages[i]
             panelNum == getProviderPanel(msg.model)
         IN  IF msg.role = "user"
             THEN LET respondedPanels == IF r.idx + 1 <= Len(ump) THEN ump[r.idx + 1] ELSE {}
                  IN  [ps |-> [n \in Slots |->
                                 IF n \in respondedPanels /\ SetHas(enabled, n)
                                 THEN Append(r.ps[n], Bubble("user", msg.content))
                                 ELSE r.ps[n]],
                       idx |-> r.idx + 1]
             ELSE IF panelNum # NULL /\ SetHas(enabled, panelNum)
                  THEN [ps |-> addMessageToPanel(r.ps, panelNum, msg.role, msg.content),
                        idx |-> r.idx]
             ELSE r

\* the grid branch of renderMessages: the four containers rebuilt from scratch
RenderGrid(messages, enabled) ==
    RenderPass2(messages, enabled, RenderPass1(messages, Len(messages)), Len(messages)).ps

\* the single branch: every user message and the tab's own replies
RECURSIVE RenderSingle(_, _, _)
RenderSingle(messages, tab, i) ==
    IF i = 0 THEN <<>>
    ELSE LET rest == RenderSingle(messages, tab, i - 1)
             msg == messages[i]
         IN  IF msg.role = "user" \/ matchesProvider(msg.model, tab)
             THEN Append(rest, Bubble(msg.role, msg.content))
             ELSE rest

\* a renderMessages that does not empty the containers before it fills them
renderMessagesAppend(messages, enabled, tab, ps, sv) ==
    IF tab = "all" \/ ~SetHas(enabled, tab)
    THEN [currentTab |-> "all",
          panels |-> [n \in Slots |-> ps[n] \o RenderGrid(messages, enabled)[n]],
          single |-> sv, view |-> "grid"]
    ELSE [currentTab |-> tab, panels |-> ps,
          single |-> sv \o RenderSingle(messages, tab, Len(messages)), view |-> "single"]

\* renderMessages as a function of the state it reads, giving the state it writes:
\* a single tab whose slot is disabled falls back to 'all' and renders the grid
renderMessages(messages, enabled, tab, ps, sv) ==
    IF tab = "all" \/ ~SetHas(enabled, tab)
    THEN [currentTab |-> "all", panels |-> RenderGrid(messages, enabled),
          single |-> sv, view |-> "grid"]
    ELSE [currentTab |-> tab, panels |-> ps,
          single |-> RenderSingle(messages, tab, Len(messages)), view |-> "single"]

\* ------------------------------------------------------- the alert aggregator
\* the provider name showApiKeyAlert extracts from an error message
AlertProviderName(message) ==
    IF Includes(message, "OpenAI") THEN "ChatGPT"
    ELSE IF Includes(message, "Anthropic") THEN "Claude"
    ELSE IF Includes(message, "Google") THEN "Gemini"
    ELSE IF Includes(message, "xAI") THEN "Grok"
    ELSE NULL

\* Array.prototype.join
RECURSIVE Join(_, _)
Join(arr, sep) ==
    IF Len(arr) = 0 THEN <<>>
    ELSE IF Len(arr) = 1 THEN <<arr[1]>>
    ELSE <<arr[1], sep>> \o Join(Tail(arr), sep)

\* a displayText that joins every name with a comma
AlertDisplayTextCommas(providers) == Join(providers, ", ")

\* displayText of the timeout callback
AlertDisplayText(providers) ==
    IF Len(providers) = 1 THEN <<providers[1]>>
    ELSE IF Len(providers) = 2 THEN Join(providers, " & ")
    ELSE IF Len(providers) > 2
         THEN Join(SubSeq(providers, 1, Len(providers) - 1), ", ")
                \o <<", & ", providers[Len(providers)]>>
    ELSE <<"the selected providers">>

\* --------------------------------------------------------------- the state
VARIABLES
    enabledProviders,        \* the Set enabledProviders, in insertion order
    providerModels,          \* providerModels: slot -> model string
    currentConversation,     \* the cached conversation; id 0 is null
    systemPrompt,            \* the value of the system-prompt textarea
    referenceDocuments,      \* the array referenceDocuments
    currentTab,              \* 'all' or a slot
    panels,                  \* children of messages-1 .. messages-4
    single,                  \* children of single-messages
    view,                    \* which of empty-state / grid-view / single-view is displayed
    sendBtnDisabled,         \* send-btn.disabled
    missingApiKeyProviders,  \* the Set missingApiKeyProviders, in insertion order
    apiKeyAlertTimeout,      \* TRUE while the timeout apiKeyAlertTimeout names is pending
    timers,                  \* the pending timeouts of the page, each named by the
                             \* position in the history of the signal that set it
    alerts,                  \* the texts written to api-key-alert-provider, oldest first
    signals,                 \* history: the messages given to showApiKeyAlert and the
                             \* firings of its timeout, oldest first
    pc,                      \* where the running sendMessage is suspended
    cycle,                   \* the locals of the running sendMessage
    calls,                   \* the sendToProvider activations of the cycle, per slot
    outcome,                 \* how the last sendMessage ended
    net,                     \* the requests the running (or last) sendMessage has issued
    overlap,                 \* a second sendMessage, invoked while the first is running:
                             \* where it is suspended, its locals, its sendToProvider
                             \* activations, and how many such invocations so far
    sel,                     \* the selectConversation the user started: the id it awaits
                             \* (0 is none) and, as history, how the last one ended
    patches,                 \* the bag of bodies of the settings PATCHes in flight
    srv,                     \* the conversation store behind the API
    ops,                     \* user operations so far
    cycles,                  \* sendMessage invocations so far
    conversationHistory,     \* legacy page: provider id -> array of {role, content}
    conversationEvents,      \* legacy page: provider id -> array of context-change events
    currentSystemContext,    \* legacy page: the context of the last send, or null
    undoSnapshot,            \* legacy page: the snapshot clearAllChats took, or null
    undoTimeout,             \* legacy page: the id of the timeout showUndoToast set last
                             \* (0 before the first)
    undoTimers,              \* legacy page: the pending timeouts of the undo toasts
    legacyCalls,             \* legacy page: the last sendToProvider of each provider
    timeoutIds,              \* legacy page: setTimeout calls of the undo toasts so far
    lastClear,               \* history: the legacy page just before its last
                             \* clearAllChats, and the timeout of that clear
    legacyOps,               \* legacy page: user operations so far
    cache,                   \* service worker: the cache asher-v1, request -> response
    handlers,                \* service worker: the last fetch handler of each request
    puts,                    \* service worker: the cache.put calls not yet settled
    fetches                  \* service worker: fetch events so far

vars ==
    <<enabledProviders, providerModels, currentConversation, systemPrompt,
      referenceDocuments, currentTab, panels, single, view, sendBtnDisabled,
      missingApiKeyProviders, apiKeyAlertTimeout, timers, alerts, signals, pc,
      cycle, calls, outcome, net, overlap, sel, patches, srv, ops, cycles,
      conversationHistory, conversationEvents, currentSystemContext, undoSnapshot,
      undoTimeout, undoTimers, legacyCalls, timeoutIds, lastClear, legacyOps,
      cache, handlers, puts, fetches>>

\* the variables of the chat page (quadchat.js)
pageVars ==
    <<enabledProviders, providerModels, currentConversation, systemPrompt,
      referenceDocuments, currentTab, panels, single, view, sendBtnDisabled,
      missingApiKeyProviders, apiKeyAlertTimeout, timers, alerts, signals, pc,
      cycle, calls, outcome, net, overlap, sel, patches, srv, ops, cycles>>

\* the variables of the legacy page (app_new.js)
legacyVars ==
    <<conversationHistory, conversationEvents, currentSystemContext, undoSnapshot,
      undoTimeout, undoTimers, legacyCalls, timeoutIds, lastClear, legacyOps>>

\* the variables of the service worker (service-worker.js)
workerVars == <<cache, handlers, puts, fetches>>

registryVars == <<enabledProviders, providerModels>>

docVars == <<systemPrompt, referenceDocuments>>

domVars == <<currentTab, panels, single, view>>

alertVars == <<missingApiKeyProviders, apiKeyAlertTimeout, timers, alerts, signals>>

sendVars == <<pc, cycle, calls, outcome, net, sendBtnDisabled, overlap>>

ConvIds == 1..MaxConvs

NoConversation == [id |-> 0, messages |-> <<>>]

NoCall == [status |-> "none"]

NoSelect == [id |-> 0, last |-> "none"]

\* enabledAtSend is history: the enabled set when sendMessage was invoked
NoCycle ==
    [message |-> <<>>, activeProviderNums |-> <<>>, requests |-> <<>>, convId |-> 0,
     enabledAtSend |-> <<>>]

\* provider_settings objects a stored conversation can carry: sets of
\* [num, enabled, model] entries, model NoModel when the entry has none
NoSettings == {}

NoOverlap ==
    [pc |-> "idle", cycle |-> NoCycle, calls |-> [n \in Slots |-> NoCall], count |-> 0]

\* a conversation the store does not hold, and one just created
NoStored ==
    [exists |-> FALSE, messages |-> <<>>, system_prompt |-> <<>>, documents |-> <<>>,
     provider_settings |-> NoSettings]

NewStored ==
    [exists |-> TRUE, messages |-> <<>>, system_prompt |-> <<>>, documents |-> <<>>,
     provider_settings |-> NoSettings]

\* values of the message input
Texts == {<<"q1">>}

\* the models the selects of one slot offer besides the default
AltModels ==
    [n \in Slots |->
        CASE n = "1" -> <<"o3">>
          [] n = "2" -> <<"claude", "-opus-4-5">>
          [] n = "3" -> <<"gemini", "-2.5-flash">>
          [] n = "4" -> <<"grok", "-3">>]

\* the provider_settings the answer to a GET can carry
StoredSettings ==
    { NoSettings,
      { [num |-> "2", enabled |-> FALSE, model |-> NoModel] },
      { [num |-> n, enabled |-> FALSE, model |-> DefaultModels[n]] : n \in Slots },
      { [num |-> "1", enabled |-> TRUE, model |-> AltModels["1"]],
        [num |-> "5", enabled |-> FALSE, model |-> NoModel] } }

\* ------------------------------------------------------------ the legacy page
\* two of the provider ids of PROVIDER_MAP
LegacyProviders == {"openai-gpt5.1", "claude-sonnet-4.5"}

\* the texts of the message box, the replies of the backend and the contexts
\* buildContext returns
LegacyMessages == {"m1"}
LegacyReplies == {"a1", "a2"}
LegacyContexts == {"be brief", "be formal"}

NoLegacyCall ==
    [pending |-> FALSE, message |-> "", conversation_history |-> <<>>,
     regenerated |-> FALSE, before |-> <<>>]

NoSnapshot ==
    [taken |-> FALSE,
     conversationHistory |-> [p \in LegacyProviders |-> <<>>],
     conversationEvents |-> [p \in LegacyProviders |-> <<>>],
     currentSystemContext |-> NULL]

\* the legacy page after DOMContentLoaded (initializeConversationHistory)
InitLegacy ==
    /\ conversationHistory = [p \in LegacyProviders |-> <<>>]
    /\ conversationEvents = [p \in LegacyProviders |-> <<>>]
    /\ currentSystemContext = NULL
    /\ undoSnapshot = NoSnapshot
    /\ undoTimeout = 0
    /\ undoTimers = {}
    /\ legacyCalls = [p \in LegacyProviders |-> NoLegacyCall]
    /\ timeoutIds = 0
    /\ lastClear = [before |-> NoSnapshot, timer |-> 0]
    /\ legacyOps = 0

\* the events after detectContextChanges(activeProviders) when buildContext
\* returns newContext
detectContextChanges(activeProviders, newContext) ==
    IF currentSystemContext # NULL /\ currentSystemContext # newContext
    THEN [p \in LegacyProviders |->
            IF p \in activeProviders
            THEN Append(conversationEvents[p],
                        [type |-> "context_change", message |-> "System prompt updated"])
            ELSE conversationEvents[p]]
    ELSE conversationEvents

\* the request sendToProvider(providerId, message) puts in flight; before is
\* the history of the provider when the user operation began
legacyRequest(message, history, regenerated, before) ==
    [pending |-> TRUE, message |-> message, conversation_history |-> history,
     regenerated |-> regenerated, before |-> before]

\* the user sends a message to the active providers; the send button is
\* disabled until the requests of the previous send have settled
sendToAllProviders(message, newContext, activeProviders) ==
    /\ legacyOps < MaxLegacyOps
    /\ activeProviders # {}
    /\ \A p \in LegacyProviders :
            legacyCalls[p].pending => (legacyCalls[p].regenerated /\ p \notin activeProviders)
    /\ conversationEvents' = detectContextChanges(activeProviders, newContext)
    /\ currentSystemContext' = newContext
    /\ legacyCalls' =
            [p \in LegacyProviders |->
                IF p \in activeProviders
                THEN legacyRequest(message, conversationHistory[p], FALSE,
                                   conversationHistory[p])
                ELSE legacyCalls[p]]
    /\ legacyOps' = legacyOps + 1
    /\ UNCHANGED <<conversationHistory, undoSnapshot, undoTimeout, undoTimers, timeoutIds,
                   lastClear, pageVars, workerVars>>

\* the request of providerId settles: with kind "ok" sendToProvider pushes the
\* message and the reply, with kind "error" (fetch rejects, a non-ok status or
\* success: false) it shows the error and leaves the history alone
legacyArrive(providerId, kind, reply) ==
    /\ legacyCalls[providerId].pending
    /\ conversationHistory' =
            IF kind = "ok"
            THEN [conversationHistory EXCEPT
                    ![providerId] = @ \o <<[role |-> "user",
                                            content |-> legacyCalls[providerId].message],
                                           [role |-> "assistant", content |-> reply]>>]
            ELSE conversationHistory
    /\ legacyCalls' = [legacyCalls EXCEPT ![providerId].pending = FALSE]
    /\ UNCHANGED <<conversationEvents, currentSystemContext, undoSnapshot, undoTimeout,
                   undoTimers, timeoutIds, lastClear, legacyOps, pageVars, workerVars>>

\* the user clicks the regenerate button of a reply of providerId
regenerateResponse(providerId) ==
    LET history == conversationHistory[providerId]
        popped == SubSeq(history, 1, Len(history) - 1)
    IN  /\ legacyOps < MaxLegacyOps
        /\ ~legacyCalls[providerId].pending
        /\ IF Len(history) < 2
           THEN UNCHANGED <<conversationHistory, legacyCalls>>
           ELSE /\ conversationHistory' = [conversationHistory EXCEPT ![providerId] = popped]
                /\ IF popped[Len(popped)].role # "user"
                   THEN UNCHANGED legacyCalls
                   ELSE legacyCalls' =
                            [legacyCalls EXCEPT
                                ![providerId] =
                                    legacyRequest(popped[Len(popped)].content, popped,
                                                  TRUE, history)]
        /\ legacyOps' = legacyOps + 1
        /\ UNCHANGED <<conversationEvents, currentSystemContext, undoSnapshot, undoTimeout,
                       undoTimers, timeoutIds, lastClear, pageVars, workerVars>>

\* the timeouts after clearTimeout(undoTimeout)
clearUndoTimeout == {t \in undoTimers : t.id # undoTimeout}

\* the user clears the chats and confirms; showUndoToast arms the 5 s timeout
clearAllChats ==
    LET snapshot == [taken |-> TRUE,
                     conversationHistory |-> conversationHistory,
                     conversationEvents |-> conversationEvents,
                     currentSystemContext |-> currentSystemContext]
        id == timeoutIds + 1
    IN  /\ legacyOps < MaxLegacyOps
        /\ undoSnapshot' = snapshot
        /\ conversationHistory' = [p \in LegacyProviders |-> <<>>]
        /\ conversationEvents' = [p \in LegacyProviders |-> <<>>]
        /\ currentSystemContext' = NULL
        /\ undoTimers' = clearUndoTimeout \cup {[id |-> id, kind |-> "hide"]}
        /\ undoTimeout' = id
        /\ timeoutIds' = id
        /\ lastClear' = [before |-> snapshot, timer |-> id]
        /\ legacyOps' = legacyOps + 1
        /\ UNCHANGED <<legacyCalls, pageVars, workerVars>>

\* timeout t can fire: a timeout set earlier with the same delay, and a 300 ms
\* timeout set before a 5 s timeout, fires first
CanFire(t) ==
    ~\E u \in undoTimers : u.id < t.id /\ (u.kind = t.kind \/ u.kind = "remove")

\* the 5 s timeout of a toast fires: the toast is hidden and the 300 ms timeout
\* that removes it is set
undoToastHide ==
    \E t \in undoTimers :
        /\ t.kind = "hide"
        /\ CanFire(t)
        /\ undoTimers' = (undoTimers \ {t}) \cup {[id |-> timeoutIds + 1, kind |-> "remove"]}
        /\ timeoutIds' = timeoutIds + 1
        /\ UNCHANGED <<conversationHistory, conversationEvents, currentSystemContext,
                       undoSnapshot, undoTimeout, legacyCalls, lastClear, legacyOps,
                       pageVars, workerVars>>

\* the 300 ms timeout of a toast fires: the toast is removed and the snapshot
\* is dropped
undoToastRemove ==
    \E t \in undoTimers :
        /\ t.kind = "remove"
        /\ CanFire(t)
        /\ undoTimers' = undoTimers \ {t}
        /\ undoSnapshot' = NoSnapshot
        /\ UNCHANGED <<conversationHistory, conversationEvents, currentSystemContext,
                       undoTimeout, legacyCalls, timeoutIds, lastClear, legacyOps,
                       pageVars, workerVars>>

\* the user clicks Undo on a toast
undoClearChats ==
    /\ legacyOps < MaxLegacyOps
    /\ legacyOps' = legacyOps + 1
    /\ IF ~undoSnapshot.taken
       THEN UNCHANGED <<conversationHistory, conversationEvents, currentSystemContext,
                        undoSnapshot, undoTimers>>
       ELSE /\ conversationHistory' = undoSnapshot.conversationHistory
            /\ conversationEvents' = undoSnapshot.conversationEvents
            /\ currentSystemContext' = undoSnapshot.currentSystemContext
            /\ undoSnapshot' = NoSnapshot
            /\ undoTimers' = clearUndoTimeout
    /\ UNCHANGED <<undoTimeout, legacyCalls, timeoutIds, lastClear, pageVars, workerVars>>

NextLegacy ==
    \/ \E message \in LegacyMessages, newContext \in LegacyContexts,
          activeProviders \in SUBSET LegacyProviders :
            sendToAllProviders(message, newContext, activeProviders)
    \/ \E providerId \in LegacyProviders, kind \in {"ok", "error"}, reply \in LegacyReplies :
            legacyArrive(providerId, kind, reply)
    \/ \E providerId \in LegacyProviders : regenerateResponse(providerId)
    \/ clearAllChats
    \/ undoToastHide
    \/ undoToastRemove
    \/ undoClearChats

\* -------------------------------------------------------- the service worker
\* requests of the page: a document the install step caches, and the login POST
SwRequests ==
    { [url |-> "/index.html", method |-> "GET"],
      [url |-> "/api/auth/login", method |-> "POST"] }

\* the responses of the network, the response cached at install, and undefined
NetworkResponses == {"n1", "n2"}
Installed == "installed"
NoResponse == "undefined"

NoHandler == [state |-> "none", network |-> "none", source |-> "none", response |-> NoResponse]

\* the worker after install: cache.addAll(urlsToCache)
InitWorker ==
    /\ cache = [r \in SwRequests |-> IF r.url = "/index.html" THEN Installed ELSE NoResponse]
    /\ handlers = [r \in SwRequests |-> NoHandler]
    /\ puts = {}
    /\ fetches = 0

\* caches.match(request): only a GET request matches
cachesMatch(request) == IF request.method = "GET" THEN cache[request] ELSE NoResponse

\* the page requests `request`: the fetch listener calls fetch(event.request)
fetchEvent(request) ==
    /\ fetches < MaxFetches
    /\ handlers[request].state # "fetching"
    /\ handlers' = [handlers EXCEPT ![request] = [NoHandler EXCEPT !.state = "fetching"]]
    /\ fetches' = fetches + 1
    /\ UNCHANGED <<cache, puts, pageVars, legacyVars>>

\* fetch(event.request) resolves with `response`: the handler starts the put
\* of a clone and answers with the response
networkResolves(request, response) ==
    /\ handlers[request].state = "fetching"
    /\ handlers' = [handlers EXCEPT
                      ![request] = [state |-> "responded", network |-> "ok",
                                    source |-> "network", response |-> response]]
    /\ puts' = puts \cup {[request |-> request, response |-> response]}
    /\ UNCHANGED <<cache, fetches, pageVars, legacyVars>>

\* fetch(event.request) rejects: the handler answers with caches.match
networkRejects(request) ==
    /\ handlers[request].state = "fetching"
    /\ handlers' = [handlers EXCEPT
                      ![request] = [state |-> "responded", network |-> "failed",
                                    source |-> "cache", response |-> cachesMatch(request)]]
    /\ UNCHANGED <<cache, puts, fetches, pageVars, legacyVars>>

\* a cache.put settles: it stores the clone of a GET request and rejects with
\* a TypeError for any other method
putSettles(p) ==
    /\ p \in puts
    /\ puts' = puts \ {p}
    /\ cache' = IF p.request.method = "GET"
                THEN [cache EXCEPT ![p.request] = p.response]
                ELSE cache
    /\ UNCHANGED <<handlers, fetches, pageVars, legacyVars>>

\* the browser stops the worker while no event is being handled: the puts,
\* which no event.waitUntil covers, are dropped
workerStops ==
    /\ puts # {}
    /\ \A r \in SwRequests : handlers[r].state # "fetching"
    /\ puts' = {}
    /\ UNCHANGED <<cache, handlers, fetches, pageVars, legacyVars>>

NextWorker ==
    \/ \E request \in SwRequests : fetchEvent(request)
    \/ \E request \in SwRequests, response \in NetworkResponses :
            networkResolves(request, response)
    \/ \E request \in SwRequests : networkRejects(request)
    \/ \E p \in puts : putSettles(p)
    \/ workerStops

Init ==
    /\ enabledProviders = SlotOrder
    /\ providerModels = DefaultModels
    /\ currentConversation = NoConversation
    /\ systemPrompt = <<>>
    /\ referenceDocuments = <<>>
    /\ currentTab = "all"
    /\ panels = EmptyPanels
    /\ single = <<>>
    /\ view = "empty"
    /\ sendBtnDisabled = FALSE
    /\ missingApiKeyProviders = <<>>
    /\ apiKeyAlertTimeout = FALSE
    /\ timers = {}
    /\ alerts = <<>>
    /\ signals = <<>>
    /\ pc = "idle"
    /\ cycle = NoCycle
    /\ calls = [n \in Slots |-> NoCall]
    /\ outcome = "none"
    /\ net = {}
    /\ overlap = NoOverlap
    /\ sel = NoSelect
    /\ patches = EmptyBag
    /\ srv = [c \in ConvIds |-> IF c = 1 THEN NewStored ELSE NoStored]
    /\ ops = 0
    /\ cycles = 0
    /\ InitLegacy
    /\ InitWorker

\* --------------------------------------------------------- provider settings
\* a loadProviderSettings that enables a known slot only when its entry says so
loadProviderSettingsNoDefaults(settings) ==
    LET known == {e \in settings : e.num \in Slots}
    IN  [enabledProviders |->
            SelectSeq(SlotOrder, LAMBDA n : \E e \in known : e.num = n /\ e.enabled = TRUE),
         providerModels |->
            [n \in Slots |->
                IF \E e \in known : e.num = n /\ e.model # NoModel
                THEN (CHOOSE e \in known : e.num = n /\ e.model # NoModel).model
                ELSE DefaultModels[n]]]

\* loadProviderSettings: defaults first, then the entries of known slots
loadProviderSettings(settings) ==
    LET known == {e \in settings : e.num \in Slots}
    IN  [enabledProviders |->
            SelectSeq(SlotOrder,
                      LAMBDA n : ~\E e \in known : e.num = n /\ e.enabled = FALSE),
         providerModels |->
            [n \in Slots |->
                IF \E e \in known : e.num = n /\ e.model # NoModel
                THEN (CHOOSE e \in known : e.num = n /\ e.model # NoModel).model
                ELSE DefaultModels[n]]]

\* a saveProviderSettings whose body lists the enabled slots only
saveProviderSettingsEnabledOnly(conv, enabled, models) ==
    IF conv.id = 0 THEN EmptyBag
    ELSE SetToBag({[conv |-> conv.id,
                    settings |-> {[num |-> n, enabled |-> TRUE, model |-> models[n]]
                                     : n \in Range(enabled)}]})

\* saveProviderSettings: the bag of PATCH bodies it issues (none without a
\* conversation, else one with an entry for each of the four slots)
saveProviderSettings(conv, enabled, models) ==
    IF conv.id = 0 THEN EmptyBag
    ELSE SetToBag({[conv |-> conv.id,
                    settings |-> {[num |-> n, enabled |-> SetHas(enabled, n),
                                   model |-> models[n]] : n \in Slots}]})

\* toggleProvider(num): the checkbox has just flipped
toggleProvider(num) ==
    /\ ops < MaxOps
    /\ ops' = ops + 1
    /\ LET isNowEnabled == ~SetHas(enabledProviders, num)
           enabled == IF isNowEnabled THEN SetAdd(enabledProviders, num)
                      ELSE SetDelete(enabledProviders, num)
           r == renderMessages(currentConversation.messages, enabled, currentTab,
                               panels, single)
       IN  /\ enabledProviders' = enabled
           /\ patches' = patches (+) saveProviderSettings(currentConversation, enabled,
                                                          providerModels)
           /\ IF currentConversation.id # 0
              THEN /\ currentTab' = r.currentTab
                   /\ panels' = r.panels
                   /\ single' = r.single
                   /\ view' = r.view
              ELSE UNCHANGED domVars
    /\ UNCHANGED <<providerModels, currentConversation, docVars, alertVars, sendVars, sel, srv,
                   cycles, legacyVars, workerVars>>

\* setProviderModel(num, model)
setProviderModel(num, model) ==
    /\ ops < MaxOps
    /\ ops' = ops + 1
    /\ SetHas(enabledProviders, num)     \* the select of a disabled slot is disabled
    /\ model # providerModels[num]       \* a change event
    /\ providerModels' = [providerModels EXCEPT ![num] = model]
    /\ patches' = patches (+) saveProviderSettings(currentConversation, enabledProviders,
                                                   providerModels')
    /\ UNCHANGED <<enabledProviders, currentConversation, docVars, domVars, alertVars, sendVars, sel,
                   srv, cycles, legacyVars, workerVars>>

\* what the store does with a settings PATCH (modelled from the API contract):
\* provider_settings of the conversation becomes the one of the body
storePatches(stored, p) == [stored EXCEPT !.provider_settings = p.settings]

\* the fetch of a settings PATCH settles: with an answer (ok), the store having
\* handled the request, or with a rejection before the request reached the
\* store, which the catch of saveProviderSettings logs to the console
patchSettled(p, ok) ==
    /\ BagIn(p, patches)
    /\ patches' = patches (-) SetToBag({p})
    /\ srv' = IF ok THEN [srv EXCEPT ![p.conv] = storePatches(@, p)] ELSE srv
    /\ UNCHANGED <<registryVars, currentConversation, docVars, domVars, alertVars, sendVars, sel,
                   ops, cycles, legacyVars, workerVars>>

\* ------------------------------------------------------- conversation select
\* the client state as one record, for the handlers that rewrite most of it
Client ==
    [currentConversation |-> currentConversation, enabledProviders |-> enabledProviders,
     providerModels |-> providerModels, systemPrompt |-> systemPrompt,
     referenceDocuments |-> referenceDocuments, currentTab |-> currentTab, panels |-> panels,
     single |-> single, view |-> view]

SetClient(st) ==
    /\ currentConversation' = st.currentConversation
    /\ enabledProviders' = st.enabledProviders
    /\ providerModels' = st.providerModels
    /\ systemPrompt' = st.systemPrompt
    /\ referenceDocuments' = st.referenceDocuments
    /\ currentTab' = st.currentTab
    /\ panels' = st.panels
    /\ single' = st.single
    /\ view' = st.view

\* a selectConversation that reloads the provider settings whatever its
\* second argument
selectConversationReload(st, id, stored, settings, skipProviderReload) ==
    LET loaded == loadProviderSettings(settings)
        messages == stored.messages
        r == renderMessages(messages, loaded.enabledProviders, st.currentTab, st.panels,
                            st.single)
    IN  [currentConversation |-> [id |-> id, messages |-> messages],
         enabledProviders |-> loaded.enabledProviders,
         providerModels |-> loaded.providerModels,
         systemPrompt |-> stored.system_prompt,
         referenceDocuments |-> stored.documents,
         currentTab |-> r.currentTab, panels |-> r.panels, single |-> r.single,
         view |-> r.view]

\* the try block of selectConversation once the GET has answered with `stored`
\* (the conversation as the store holds it) and its provider_settings
selectConversation(st, id, stored, settings, skipProviderReload) ==
    LET loaded == IF skipProviderReload
                  THEN [enabledProviders |-> st.enabledProviders,
                        providerModels |-> st.providerModels]
                  ELSE loadProviderSettings(settings)
        messages == stored.messages
        r == renderMessages(messages, loaded.enabledProviders, st.currentTab, st.panels,
                            st.single)
    IN  [currentConversation |-> [id |-> id, messages |-> messages],
         enabledProviders |-> loaded.enabledProviders,
         providerModels |-> loaded.providerModels,
         systemPrompt |-> stored.system_prompt,
         referenceDocuments |-> stored.documents,
         currentTab |-> r.currentTab, panels |-> r.panels, single |-> r.single,
         view |-> r.view]

\* how the GET of selectConversation can settle: a 200 with the conversation,
\* an error status, a body that is not JSON, or a rejected fetch
SelectAnswers == {"ok", "status", "nonjson", "network"}

\* a selectConversation that drops the cached conversation before it looks at
\* the answer
selectConversationDropFirst(st, id, answer, stored, settings, skipProviderReload) ==
    IF answer = "ok" THEN selectConversation(st, id, stored, settings, skipProviderReload)
    ELSE [st EXCEPT !.currentConversation = NoConversation]

\* selectConversation from the settlement of its GET to its end: the three
\* failures throw before the first assignment and the catch only logs
selectConversationSettled(st, id, answer, stored, settings, skipProviderReload) ==
    IF answer = "ok" THEN selectConversation(st, id, stored, settings, skipProviderReload)
    ELSE st

\* a click on a conversation of the list: selectConversation(id) starts its GET
selectStart(id) ==
    /\ ops < MaxOps
    /\ ops' = ops + 1
    /\ sel.id = 0
    /\ srv[id].exists
    /\ sel' = [sel EXCEPT !.id = id]
    /\ UNCHANGED <<registryVars, currentConversation, docVars, domVars, alertVars, sendVars, patches,
                   srv, cycles, legacyVars, workerVars>>

\* the GET of a user-initiated selectConversation answers
selectArrive(answer, settings) ==
    /\ sel.id # 0
    /\ sel' = [id |-> 0, last |-> IF answer = "ok" THEN "ok" ELSE "failed"]
    /\ SetClient(selectConversationSettled(Client, sel.id, answer, srv[sel.id], settings,
                                           FALSE))
    /\ UNCHANGED <<alertVars, sendVars, patches, srv, ops, cycles, legacyVars, workerVars>>

\* switchTab(tab)
switchTab(tab) ==
    /\ ops < MaxOps
    /\ ops' = ops + 1
    /\ IF tab # "all" /\ ~SetHas(enabledProviders, tab)
       THEN UNCHANGED domVars
       ELSE IF currentConversation.id # 0
            THEN LET r == renderMessages(currentConversation.messages, enabledProviders,
                                         tab, panels, single)
                 IN  /\ currentTab' = r.currentTab
                     /\ panels' = r.panels
                     /\ single' = r.single
                     /\ view' = r.view
            ELSE /\ currentTab' = tab
                 /\ UNCHANGED <<panels, single, view>>
    /\ UNCHANGED <<registryVars, currentConversation, docVars, alertVars, sendVars, sel, patches, srv,
                   cycles, legacyVars, workerVars>>

\* goHome
goHome ==
    /\ ops < MaxOps
    /\ ops' = ops + 1
    /\ currentConversation' = NoConversation
    /\ view' = "empty"
    /\ UNCHANGED <<registryVars, docVars, currentTab, panels, single, alertVars, sendVars, sel,
                   patches, srv, cycles, legacyVars, workerVars>>

\* ------------------------------------------------------ the context builder
\* String.prototype.trim: white space is the token " "
RECURSIVE Trim(_)
Trim(str) ==
    IF str = <<>> THEN <<>>
    ELSE IF Head(str) = " " THEN Trim(Tail(str))
    ELSE IF str[Len(str)] = " " THEN Trim(SubSeq(str, 1, Len(str) - 1))
    ELSE str

\* the text buildContext appends for the first i documents
RECURSIVE DocumentsText(_, _)
DocumentsText(docs, i) ==
    IF i = 0 THEN <<>>
    ELSE LET doc == docs[i]
         IN  DocumentsText(docs, i - 1) \o
             (IF doc.content # <<>> /\ Trim(doc.content) # <<>>
              THEN <<"--- ", doc.filename, " ---">> \o doc.content
              ELSE <<>>)

\* buildContext on the value of the system-prompt textarea and referenceDocuments
buildContext(prompt, docs) ==
    Trim(prompt) \o
    (IF Len(docs) > 0
     THEN <<"=== REFERENCE DOCUMENTS ===">> \o DocumentsText(docs, Len(docs))
     ELSE <<>>)

\* what the user types into the system-prompt textarea
PromptTexts == {<<>>, <<"be brief">>, <<" ", "be kind", " ">>}

\* the documents an upload can return: one with text and one without
Documents ==
    { [filename |-> "a.txt", content |-> <<"alpha">>],
      [filename |-> "b.txt", content |-> <<" ">>] }

\* the user edits the system-prompt textarea
editSystemPrompt(text) ==
    /\ ops < MaxOps
    /\ ops' = ops + 1
    /\ text # systemPrompt
    /\ systemPrompt' = text
    /\ UNCHANGED <<registryVars, currentConversation, referenceDocuments, domVars, alertVars,
                   sendVars, sel, patches, srv, cycles, legacyVars, workerVars>>

\* handleDocumentUpload: the upload of one file answers with the document
handleDocumentUpload(doc) ==
    /\ ops < MaxOps
    /\ ops' = ops + 1
    /\ Len(referenceDocuments) < MaxDocs
    /\ referenceDocuments' = Append(referenceDocuments, doc)
    /\ UNCHANGED <<registryVars, currentConversation, systemPrompt, domVars, alertVars,
                   sendVars, sel, patches, srv, cycles, legacyVars, workerVars>>

\* removeDocument(index), index counted from 1
removeDocument(index) ==
    /\ ops < MaxOps
    /\ ops' = ops + 1
    /\ index \in 1..Len(referenceDocuments)
    /\ referenceDocuments' =
           SubSeq(referenceDocuments, 1, index - 1) \o
           SubSeq(referenceDocuments, index + 1, Len(referenceDocuments))
    /\ UNCHANGED <<registryVars, currentConversation, systemPrompt, domVars, alertVars,
                   sendVars, sel, patches, srv, cycles, legacyVars, workerVars>>

\* ------------------------------------------------------------ the dispatcher
\* responses a provider request can get: 200 with assistant_message; an error
\* status whose detail names a missing API key; an error status with another
\* detail; a body that is not JSON; no response at all (fetch rejects)
Kinds == {"ok", "nokey", "http", "nonjson", "network"}

\* the vendor word the store's missing-key detail carries for a slot
VendorWord ==
    [n \in Slots |->
        CASE n = "1" -> "OpenAI" [] n = "2" -> "Anthropic"
          [] n = "3" -> "Google" [] n = "4" -> "xAI"]

\* error.message in the catch of sendToProvider
ErrorMessage(kind, num) ==
    CASE kind = "nokey" -> <<VendorWord[num], "API key not configured">>
      [] kind = "http" -> <<"Provider request failed">>
      [] kind = "nonjson" -> <<"Unexpected token < in JSON">>
      [] kind = "network" -> <<"Failed to fetch">>
      [] kind = "nullconv" -> <<"Cannot read properties of null">>

\* data.assistant_message of a successful answer
AssistantMessage(num, model) ==
    [role |-> "assistant", content |-> <<"reply of ", PROVIDER_INFO[num].id>>, model |-> model]

UserMessage(message) == [role |-> "user", content |-> message, model |-> NoModel]

\* the sequence without its first element of the given id
RemoveById(seq, id) ==
    LET k == CHOOSE i \in 1..Len(seq) :
                 /\ seq[i].id = id
                 /\ \A j \in 1..(i - 1) : seq[j].id # id
    IN  SubSeq(seq, 1, k - 1) \o SubSeq(seq, k + 1, Len(seq))

HasId(seq, id) == \E i \in 1..Len(seq) : seq[i].id = id

LoadingId(panelNum) == <<"loading-", panelNum>>

\* addLoadingToPanel
addLoadingToPanel(ps, panelNum) ==
    [ps EXCEPT ![panelNum] = Append(@, LoadingBubble(LoadingId(panelNum)))]

\* removeLoadingFromPanel on d = [panels, single]: getElementById of the slot's
\* indicator, or else of 'loading-single'
removeLoadingFromPanel(d, panelNum) ==
    IF \E n \in Slots : HasId(d.panels[n], LoadingId(panelNum))
    THEN LET n == CHOOSE m \in Slots : HasId(d.panels[m], LoadingId(panelNum))
         IN  [d EXCEPT !.panels[n] = RemoveById(@, LoadingId(panelNum))]
    ELSE IF HasId(d.single, <<"loading-single">>)
         THEN [d EXCEPT !.single = RemoveById(@, <<"loading-single">>)]
    ELSE d

\* where sendToProvider puts a bubble: the slot's panel in the grid tab, the
\* single container in any other tab
Deliver(d, tab, panelNum, role, content) ==
    IF tab = "all"
    THEN [d EXCEPT !.panels = addMessageToPanel(@, panelNum, role, content)]
    ELSE [d EXCEPT !.single = Append(@, Bubble(role, content))]

\* the entry of the history for a firing of the timeout
Fired == <<"timeout fired">>

\* the timeouts left pending by clearTimeout(apiKeyAlertTimeout): the variable
\* names the timeout set last
ClearTimeout(a) ==
    IF a.timeout THEN {t \in a.timers : \E u \in a.timers : u > t} ELSE a.timers

\* a showApiKeyAlert that collects the names in an array
showApiKeyAlertArray(a, message) ==
    [missing |-> IF AlertProviderName(message) # NULL
                 THEN Append(a.missing, AlertProviderName(message))
                 ELSE a.missing,
     timeout |-> TRUE,
     timers |-> ClearTimeout(a) \cup {Len(a.signals) + 1},
     signals |-> Append(a.signals, message)]

\* a showApiKeyAlert that returns when its message names no known vendor
showApiKeyAlertKnownOnly(a, message) ==
    IF AlertProviderName(message) = NULL
    THEN [a EXCEPT !.signals = Append(a.signals, message)]
    ELSE [missing |-> SetAdd(a.missing, AlertProviderName(message)),
          timeout |-> TRUE,
          timers |-> ClearTimeout(a) \cup {Len(a.signals) + 1},
          signals |-> Append(a.signals, message)]

\* a showApiKeyAlert that sets a timeout without clearing the pending one
showApiKeyAlertNoClear(a, message) ==
    [missing |-> IF AlertProviderName(message) # NULL
                 THEN SetAdd(a.missing, AlertProviderName(message))
                 ELSE a.missing,
     timeout |-> TRUE,
     timers |-> a.timers \cup {Len(a.signals) + 1},
     signals |-> Append(a.signals, message)]

\* showApiKeyAlert(message) on a = [missing, timeout, timers, signals]: collect
\* the name, clear the pending timeout and set a new one
showApiKeyAlert(a, message) ==
    LET providerName == AlertProviderName(message)
    IN  [missing |-> IF providerName # NULL THEN SetAdd(a.missing, providerName)
                     ELSE a.missing,
         timeout |-> TRUE,
         timers |-> ClearTimeout(a) \cup {Len(a.signals) + 1},
         signals |-> Append(a.signals, message)]

\* the aggregator's part of x
AlertPart(x) ==
    [missing |-> x.missing, timeout |-> x.timeout, timers |-> x.timers,
     signals |-> x.signals]

\* a sendToProvider without its catch: the error leaves the async function,
\* whose promise rejects, and nothing is drawn
sendToProviderThrow(x, tab, panelNum, message) ==
    [panels |-> x.panels, single |-> x.single, missing |-> x.missing,
     timeout |-> x.timeout, timers |-> x.timers, signals |-> x.signals,
     promise |-> "rejected"]

\* a catch block that draws the error bubble for every error, and signals the
\* aggregator besides when the error is a missing key
sendToProviderCatchBoth(x, tab, panelNum, message) ==
    LET d == removeLoadingFromPanel([panels |-> x.panels, single |-> x.single], panelNum)
        e == Deliver(d, tab, panelNum, "error", <<"Error: ">> \o message)
        a == IF Includes(message, "API key not configured")
             THEN showApiKeyAlert(AlertPart(x), message)
             ELSE AlertPart(x)
    IN  [panels |-> e.panels, single |-> e.single, missing |-> a.missing,
         timeout |-> a.timeout, timers |-> a.timers, signals |-> a.signals,
         promise |-> "fulfilled"]

\* the catch block of sendToProvider on x = [panels, single, missing, timeout,
\* timers, signals] for error.message = message; the async function then
\* returns normally
sendToProviderCatch(x, tab, panelNum, message) ==
    LET d == removeLoadingFromPanel([panels |-> x.panels, single |-> x.single], panelNum)
    IN  IF Includes(message, "API key not configured")
        THEN LET a == showApiKeyAlert(AlertPart(x), message)
             IN  [panels |-> d.panels, single |-> d.single, missing |-> a.missing,
                  timeout |-> a.timeout, timers |-> a.timers, signals |-> a.signals,
                  promise |-> "fulfilled"]
        ELSE LET e == Deliver(d, tab, panelNum, "error", <<"Error: ">> \o message)
             IN  [panels |-> e.panels, single |-> e.single, missing |-> x.missing,
                  timeout |-> x.timeout, timers |-> x.timers, signals |-> x.signals,
                  promise |-> "fulfilled"]

\* a fan-out that marks the request of the lowest slot id, wherever it stands
SkipUserMessageAll(index) == index >= 0

\* skip_user_message of the request at position index (0-based) of the fan-out
SkipUserMessage(index) == index > 0

\* a sendMessage that draws the loading indicators without the user bubbles
RECURSIVE AddLoadingOnly(_, _, _, _)
AddLoadingOnly(ps, activeProviderNums, message, i) ==
    IF i = 0 THEN ps
    ELSE addLoadingToPanel(AddLoadingOnly(ps, activeProviderNums, message, i - 1),
                           activeProviderNums[i])

\* lines 555-573 of sendMessage: the optimistic user bubble and the loading
\* indicator of every active slot, and of the single container off the grid tab
RECURSIVE AddOptimistic(_, _, _, _)
AddOptimistic(ps, activeProviderNums, message, i) ==
    IF i = 0 THEN ps
    ELSE addLoadingToPanel(
            addMessageToPanel(AddOptimistic(ps, activeProviderNums, message, i - 1),
                              activeProviderNums[i], "user", message),
            activeProviderNums[i])

\* a body whose system_prompt, for the requests after the first, is the text
\* of the textarea without the documents
SystemPromptFieldPromptOnly(systemContext, st, index) ==
    IF index = 0 THEN systemContext ELSE Trim(st.systemPrompt)

\* system_prompt of the body of the request at position index (0-based): the
\* context sendMessage built and passed as third argument
SystemPromptField(systemContext, st, index) == systemContext

\* a fan-out that starts the sendToProvider of the first slot only, the others
\* waiting for it
FanOutFirstOnly(x, st, activeProviderNums, message, systemContext, i) ==
    IF i = 0 THEN [x |-> x, calls |-> [n \in Slots |-> NoCall], requests |-> <<>>]
    ELSE LET num == activeProviderNums[1]
             req == [panelNum |-> num, provider |-> PROVIDER_INFO[num].id,
                     message |-> message,
                     system_prompt |-> SystemPromptField(systemContext, st, 0),
                     skip |-> SkipUserMessage(0),
                     model |-> st.providerModels[num],
                     conv |-> st.currentConversation.id]
         IN  [x |-> x,
              calls |-> [n \in Slots |->
                           IF n = num
                           THEN [status |-> "fetch", req |-> req, promise |-> "pending",
                                 kind |-> "none"]
                           ELSE NoCall],
              requests |-> <<req>>]

\* the synchronous part of the sendToProvider calls of lines 575-579, in order:
\* with a conversation each call issues its POST; without one, reading
\* currentConversation.id throws inside the try and the catch block runs at once
RECURSIVE FanOut(_, _, _, _, _, _)
FanOut(x, st, activeProviderNums, message, systemContext, i) ==
    IF i = 0 THEN [x |-> x, calls |-> [n \in Slots |-> NoCall], requests |-> <<>>]
    ELSE LET r == FanOut(x, st, activeProviderNums, message, systemContext, i - 1)
             num == activeProviderNums[i]
             req == [panelNum |-> num, provider |-> PROVIDER_INFO[num].id,
                     message |-> message,
                     system_prompt |-> SystemPromptField(systemContext, st, i - 1),
                     skip |-> SkipUserMessage(i - 1),
                     model |-> st.providerModels[num],
                     conv |-> st.currentConversation.id]
         IN  IF st.currentConversation.id # 0
             THEN [x |-> r.x,
                   calls |-> [r.calls EXCEPT ![num] =
                                [status |-> "fetch", req |-> req, promise |-> "pending",
                                 kind |-> "none"]],
                   requests |-> Append(r.requests, req)]
             ELSE LET c == sendToProviderCatch(r.x, st.currentTab, num,
                                               ErrorMessage("nullconv", num))
                  IN  [x |-> c,
                       calls |-> [r.calls EXCEPT ![num] =
                                    [status |-> "done", req |-> req, promise |-> c.promise,
                                     kind |-> "nullconv"]],
                       requests |-> Append(r.requests, req)]

\* sendMessage from line 541 to its await of Promise.all, on the client state st
Dispatch(st, message, issued, atSend) ==
    LET systemContext == buildContext(st.systemPrompt, st.referenceDocuments)
        activeProviderNums == st.enabledProviders
        ps == AddOptimistic(st.panels, activeProviderNums, message,
                            Len(activeProviderNums))
        sv == IF st.currentTab # "all"
              THEN st.single \o <<Bubble("user", message), LoadingBubble(<<"loading-single">>)>>
              ELSE st.single
        f == FanOut([panels |-> ps, single |-> sv, missing |-> missingApiKeyProviders,
                     timeout |-> apiKeyAlertTimeout, timers |-> timers, signals |-> signals],
                    st, activeProviderNums, message, systemContext, Len(activeProviderNums))
    IN  IF Len(activeProviderNums) = 0
        THEN /\ SetClient(st)
             /\ sendBtnDisabled' = FALSE
             /\ outcome' = "NoProvidersEnabled"
             /\ pc' = "idle"
             /\ cycle' = [NoCycle EXCEPT !.message = message, !.enabledAtSend = atSend]
             /\ calls' = [n \in Slots |-> NoCall]
             /\ net' = issued
             /\ UNCHANGED alertVars
        ELSE /\ SetClient([st EXCEPT !.panels = f.x.panels, !.single = f.x.single])
             /\ sendBtnDisabled' = TRUE
             /\ outcome' = "none"
             /\ pc' = "inflight"
             /\ cycle' = [message |-> message, activeProviderNums |-> activeProviderNums,
                          requests |-> f.requests, convId |-> st.currentConversation.id,
                          enabledAtSend |-> atSend]
             /\ calls' = f.calls
             /\ net' = issued \cup
                        (IF st.currentConversation.id # 0 THEN {"POST messages"} ELSE {})
             /\ missingApiKeyProviders' = f.x.missing
             /\ apiKeyAlertTimeout' = f.x.timeout
             /\ timers' = f.x.timers
             /\ signals' = f.x.signals
             /\ UNCHANGED alerts

\* sendMessage is invoked with a non-empty message in the input
sendMessage(message) ==
    /\ cycles < MaxCycles
    /\ cycles' = cycles + 1
    /\ pc = "idle"
    /\ IF currentConversation.id = 0
       THEN /\ pc' = "creating"
            /\ net' = {"POST conversations"}
            /\ cycle' = [NoCycle EXCEPT !.message = message,
                                        !.enabledAtSend = enabledProviders]
            /\ outcome' = "none"
            /\ calls' = [n \in Slots |-> NoCall]
            /\ UNCHANGED <<registryVars, currentConversation, docVars, domVars, sendBtnDisabled,
                           alertVars>>
       ELSE Dispatch(Client, message, {}, enabledProviders)
    /\ UNCHANGED <<overlap, sel, patches, srv, ops, legacyVars, workerVars>>

FreeIds == {c \in ConvIds : ~srv[c].exists}

\* the POST that auto-creates a conversation answers: on success the store
\* holds the new conversation and loadConversations starts its GET
createArrive(ok) ==
    /\ pc = "creating"
    /\ IF ok /\ FreeIds # {}
       THEN LET id == CHOOSE c \in FreeIds : \A d \in FreeIds : c <= d
            IN  /\ srv' = [srv EXCEPT ![id] = NewStored]
                /\ cycle' = [cycle EXCEPT !.convId = id]
                /\ pc' = "listing"
                /\ net' = net \cup {"GET conversations"}
                /\ UNCHANGED outcome
       ELSE /\ pc' = "idle"
            /\ outcome' = "CreateFailed"
            /\ UNCHANGED cycle
            /\ UNCHANGED <<srv, net>>
    /\ UNCHANGED <<overlap, registryVars, currentConversation, docVars, domVars, alertVars, calls,
                   sendBtnDisabled, sel, patches, ops, cycles, legacyVars, workerVars>>

\* loadConversations returns (it catches its own failure) and
\* selectConversation(newConvo.id) starts its GET
listArrive ==
    /\ pc = "listing"
    /\ pc' = "selecting"
    /\ net' = net \cup {"GET conversation"}
    /\ UNCHANGED <<overlap, registryVars, currentConversation, docVars, domVars, alertVars, cycle, calls,
                   outcome, sendBtnDisabled, sel, patches, srv, ops, cycles, legacyVars, workerVars>>

\* the GET of the auto-created conversation answers; selectConversation catches
\* its own failure, so sendMessage goes on to the fan-out either way
autoSelectArrive(answer) ==
    /\ pc = "selecting"
    /\ Dispatch(selectConversationSettled(Client, cycle.convId, answer, srv[cycle.convId],
                                          NoSettings, FALSE),
                cycle.message, net, cycle.enabledAtSend)
    /\ UNCHANGED <<overlap, sel, patches, srv, ops, cycles, legacyVars, workerVars>>

\* what the store does with a provider request (modelled from the API contract):
\* the primary request appends the user message when it reaches the handler,
\* and a successful one appends the assistant message it returns
storeHandles(stored, req, num, kind) ==
    LET withUser == IF ~req.skip /\ kind \in {"ok", "nokey", "http"}
                    THEN Append(stored.messages, UserMessage(req.message))
                    ELSE stored.messages
    IN  [stored EXCEPT !.messages =
            IF kind = "ok" THEN Append(withUser, AssistantMessage(num, req.model))
            ELSE withUser]

Doc == [panels |-> panels, single |-> single]

AlertState ==
    [panels |-> panels, single |-> single, missing |-> missingApiKeyProviders,
     timeout |-> apiKeyAlertTimeout, timers |-> timers, signals |-> signals]

\* the fetch of slot num's request settles: with a response of some kind, after
\* which the loading indicator is removed and response.json() is awaited, or
\* with a rejection, which the catch block handles
fetchArrive(num, kind) ==
    /\ calls[num].status = "fetch"
    /\ IF kind = "network"
       THEN LET c == sendToProviderCatch(AlertState, currentTab, num,
                                         ErrorMessage(kind, num))
            IN  /\ panels' = c.panels
                /\ single' = c.single
                /\ missingApiKeyProviders' = c.missing
                /\ apiKeyAlertTimeout' = c.timeout
                /\ timers' = c.timers
                /\ signals' = c.signals
                /\ calls' = [calls EXCEPT ![num].status = "done", ![num].promise = c.promise,
                                          ![num].kind = kind]
                /\ UNCHANGED srv
       ELSE LET d == removeLoadingFromPanel(Doc, num)
            IN  /\ panels' = d.panels
                /\ single' = d.single
                /\ calls' = [calls EXCEPT ![num] =
                               [status |-> "json", req |-> @.req, promise |-> "pending",
                                kind |-> kind]]
                /\ srv' = [srv EXCEPT ![calls[num].req.conv] =
                             storeHandles(@, calls[num].req, num, kind)]
                /\ UNCHANGED <<missingApiKeyProviders, apiKeyAlertTimeout, timers, signals>>
    /\ UNCHANGED <<overlap, registryVars, currentConversation, docVars, currentTab, view, alerts, pc, cycle,
                   outcome, net, sendBtnDisabled, sel, patches, ops, cycles, legacyVars, workerVars>>

\* response.json() of slot num's response settles: the assistant bubble, or the
\* throw of the error detail, or the parse failure, the last two into the catch
jsonArrive(num) ==
    /\ calls[num].status = "json"
    /\ LET kind == calls[num].kind
           req == calls[num].req
       IN  IF kind = "ok"
           THEN LET d == Deliver(Doc, currentTab, num, "assistant",
                                 AssistantMessage(num, req.model).content)
                IN  /\ panels' = d.panels
                    /\ single' = d.single
                    /\ calls' = [calls EXCEPT ![num] =
                                   [status |-> "done", req |-> req, promise |-> "fulfilled",
                                    kind |-> kind]]
                    /\ UNCHANGED <<missingApiKeyProviders, apiKeyAlertTimeout, timers, signals>>
           ELSE LET c == sendToProviderCatch(AlertState, currentTab, num,
                                             ErrorMessage(kind, num))
                IN  /\ panels' = c.panels
                    /\ single' = c.single
                    /\ missingApiKeyProviders' = c.missing
                    /\ apiKeyAlertTimeout' = c.timeout
                    /\ timers' = c.timers
                    /\ signals' = c.signals
                    /\ calls' = [calls EXCEPT ![num] =
                                   [status |-> "done", req |-> req, promise |-> c.promise,
                                    kind |-> kind]]
    /\ UNCHANGED <<overlap, registryVars, currentConversation, docVars, currentTab, view, alerts, pc, cycle,
                   outcome, net, sendBtnDisabled, sel, patches, srv, ops, cycles, legacyVars, workerVars>>

CycleSlots == Range(cycle.activeProviderNums)

\* a race over the promises of the cycle: settled as soon as one of them is
PromiseRace ==
    IF \E n \in CycleSlots : calls[n].promise = "fulfilled" THEN "fulfilled"
    ELSE IF \E n \in CycleSlots : calls[n].promise = "rejected" THEN "rejected"
    ELSE "pending"

\* Promise.all over the promises of the cycle
PromiseAll ==
    IF \E n \in CycleSlots : calls[n].promise = "rejected" THEN "rejected"
    ELSE IF \A n \in CycleSlots : calls[n].promise = "fulfilled" THEN "fulfilled"
    ELSE "pending"

\* the await of Promise.all returns: lines 580-583 of sendMessage, up to the GET
\* of selectConversation(currentConversation.id, true); a rejection, or reading
\* the id of a null conversation, rejects sendMessage
joinArrive ==
    /\ pc = "inflight"
    /\ PromiseAll # "pending"
    /\ IF PromiseAll = "rejected"
       THEN /\ pc' = "idle"
            /\ outcome' = "ProviderError"
            /\ UNCHANGED <<sendBtnDisabled, cycle, net>>
       ELSE /\ sendBtnDisabled' = FALSE
            /\ IF currentConversation.id = 0
               THEN /\ pc' = "idle"
                    /\ outcome' = "TypeError"
                    /\ UNCHANGED <<cycle, net>>
               ELSE /\ pc' = "reconciling"
                    /\ cycle' = [cycle EXCEPT !.convId = currentConversation.id]
                    /\ net' = net \cup {"GET conversation"}
                    /\ UNCHANGED outcome
    /\ UNCHANGED <<overlap, registryVars, currentConversation, docVars, domVars, alertVars, calls, sel,
                   patches, srv, ops, cycles, legacyVars, workerVars>>

\* a reconciliation that replaces the cached conversation and leaves the
\* containers as the flight left them
reconcileArriveNoRender(answer, settings) ==
    /\ pc = "reconciling"
    /\ pc' = "idle"
    /\ outcome' = "done"
    /\ IF answer = "ok"
       THEN currentConversation' =
                [id |-> cycle.convId, messages |-> srv[cycle.convId].messages]
       ELSE UNCHANGED currentConversation
    /\ UNCHANGED <<overlap, registryVars, docVars, domVars, alertVars, cycle, calls, net,
                   sendBtnDisabled, sel, patches, srv, ops, cycles, legacyVars, workerVars>>

\* the GET of the reconciling selectConversation(id, true) settles; settings
\* is the provider_settings the answer carries
reconcileArrive(answer, settings) ==
    /\ pc = "reconciling"
    /\ pc' = "idle"
    /\ outcome' = "done"
    /\ SetClient(selectConversationSettled(Client, cycle.convId, answer, srv[cycle.convId],
                                           settings, TRUE))
    /\ UNCHANGED <<overlap, alertVars, cycle, calls, net, sendBtnDisabled, sel, patches, srv, ops,
                   cycles, legacyVars, workerVars>>

\* ------------------------------------------------ a sendMessage that overlaps
\* Enter is pressed in the message input, which holds a new message, while a
\* sendMessage is running: the keydown listener calls sendMessage whatever
\* send-btn.disabled is. The input bar is shown while a conversation is, so this
\* sendMessage runs lines 541-580 at once.
sendMessageEnter(message) ==
    /\ overlap.count < MaxOverlaps
    /\ overlap.pc = "idle"
    /\ pc \in {"inflight", "reconciling"}
    /\ currentConversation.id # 0
    /\ LET systemContext == buildContext(systemPrompt, referenceDocuments)
           activeProviderNums == enabledProviders
           ps == AddOptimistic(panels, activeProviderNums, message, Len(activeProviderNums))
           sv == IF currentTab # "all"
                 THEN single \o <<Bubble("user", message), LoadingBubble(<<"loading-single">>)>>
                 ELSE single
           f == FanOut([AlertState EXCEPT !.panels = ps, !.single = sv], Client,
                       activeProviderNums, message, systemContext, Len(activeProviderNums))
       IN  IF Len(activeProviderNums) = 0
           THEN /\ sendBtnDisabled' = FALSE
                /\ overlap' = [overlap EXCEPT !.count = @ + 1]
                /\ UNCHANGED <<panels, single, missingApiKeyProviders, apiKeyAlertTimeout,
                               timers, signals>>
           ELSE /\ sendBtnDisabled' = TRUE
                /\ overlap' = [pc |-> "inflight",
                               cycle |-> [message |-> message,
                                          activeProviderNums |-> activeProviderNums,
                                          requests |-> f.requests,
                                          convId |-> currentConversation.id,
                                          enabledAtSend |-> enabledProviders],
                               calls |-> f.calls,
                               count |-> overlap.count + 1]
                /\ panels' = f.x.panels
                /\ single' = f.x.single
                /\ missingApiKeyProviders' = f.x.missing
                /\ apiKeyAlertTimeout' = f.x.timeout
                /\ timers' = f.x.timers
                /\ signals' = f.x.signals
    /\ UNCHANGED <<registryVars, currentConversation, docVars, currentTab, view, alerts, pc,
                   cycle, calls, outcome, net, sel, patches, srv, ops, cycles, legacyVars, workerVars>>

\* fetchArrive for a request of the overlapping sendMessage
overlapFetchArrive(num, kind) ==
    /\ overlap.calls[num].status = "fetch"
    /\ IF kind = "network"
       THEN LET c == sendToProviderCatch(AlertState, currentTab, num,
                                         ErrorMessage(kind, num))
            IN  /\ panels' = c.panels
                /\ single' = c.single
                /\ missingApiKeyProviders' = c.missing
                /\ apiKeyAlertTimeout' = c.timeout
                /\ timers' = c.timers
                /\ signals' = c.signals
                /\ overlap' = [overlap EXCEPT !.calls[num].status = "done",
                                              !.calls[num].promise = c.promise,
                                              !.calls[num].kind = kind]
                /\ UNCHANGED srv
       ELSE LET d == removeLoadingFromPanel(Doc, num)
            IN  /\ panels' = d.panels
                /\ single' = d.single
                /\ overlap' = [overlap EXCEPT !.calls[num] =
                                 [status |-> "json", req |-> @.req, promise |-> "pending",
                                  kind |-> kind]]
                /\ srv' = [srv EXCEPT ![overlap.calls[num].req.conv] =
                             storeHandles(@, overlap.calls[num].req, num, kind)]
                /\ UNCHANGED <<missingApiKeyProviders, apiKeyAlertTimeout, timers, signals>>
    /\ UNCHANGED <<registryVars, currentConversation, docVars, currentTab, view, alerts, pc,
                   cycle, calls, outcome, net, sendBtnDisabled, sel, patches, ops, cycles, legacyVars, workerVars>>

\* jsonArrive for a request of the overlapping sendMessage
overlapJsonArrive(num) ==
    /\ overlap.calls[num].status = "json"
    /\ LET kind == overlap.calls[num].kind
           req == overlap.calls[num].req
       IN  IF kind = "ok"
           THEN LET d == Deliver(Doc, currentTab, num, "assistant",
                                 AssistantMessage(num, req.model).content)
                IN  /\ panels' = d.panels
                    /\ single' = d.single
                    /\ overlap' = [overlap EXCEPT !.calls[num] =
                                     [status |-> "done", req |-> req,
                                      promise |-> "fulfilled", kind |-> kind]]
                    /\ UNCHANGED <<missingApiKeyProviders, apiKeyAlertTimeout, timers,
                                   signals>>
           ELSE LET c == sendToProviderCatch(AlertState, currentTab, num,
                                             ErrorMessage(kind, num))
                IN  /\ panels' = c.panels
                    /\ single' = c.single
                    /\ missingApiKeyProviders' = c.missing
                    /\ apiKeyAlertTimeout' = c.timeout
                    /\ timers' = c.timers
                    /\ signals' = c.signals
                    /\ overlap' = [overlap EXCEPT !.calls[num] =
                                     [status |-> "done", req |-> req,
                                      promise |-> c.promise, kind |-> kind]]
    /\ UNCHANGED <<registryVars, currentConversation, docVars, currentTab, view, alerts, pc,
                   cycle, calls, outcome, net, sendBtnDisabled, sel, patches, srv, ops,
                   cycles, legacyVars, workerVars>>

\* joinArrive for the overlapping sendMessage: its Promise.all is fulfilled
\* once each of its sendToProvider promises is
overlapJoinArrive ==
    /\ overlap.pc = "inflight"
    /\ \A n \in Range(overlap.cycle.activeProviderNums) :
           overlap.calls[n].promise = "fulfilled"
    /\ sendBtnDisabled' = FALSE
    /\ IF currentConversation.id = 0
       THEN overlap' = [overlap EXCEPT !.pc = "idle"]
       ELSE overlap' = [overlap EXCEPT !.pc = "reconciling",
                                       !.cycle.convId = currentConversation.id]
    /\ UNCHANGED <<registryVars, currentConversation, docVars, domVars, alertVars, pc, cycle,
                   calls, outcome, net, sel, patches, srv, ops, cycles, legacyVars, workerVars>>

\* reconcileArrive for the overlapping sendMessage
overlapReconcileArrive(answer, settings) ==
    /\ overlap.pc = "reconciling"
    /\ overlap' = [overlap EXCEPT !.pc = "idle"]
    /\ SetClient(selectConversationSettled(Client, overlap.cycle.convId, answer,
                                           srv[overlap.cycle.convId], settings, TRUE))
    /\ UNCHANGED <<alertVars, pc, cycle, calls, outcome, net, sendBtnDisabled, sel, patches,
                   srv, ops, cycles, legacyVars, workerVars>>

\* a timeout callback that shows the notification and keeps the collected names
alertTimeoutNoClear ==
    /\ timers # {}
    /\ alerts' = Append(alerts, AlertDisplayText(missingApiKeyProviders))
    /\ timers' = timers \ {CHOOSE t \in timers : \A u \in timers : t <= u}
    /\ apiKeyAlertTimeout' = (timers' # {})
    /\ signals' = Append(signals, Fired)
    /\ UNCHANGED <<registryVars, currentConversation, docVars, domVars, sendVars, sel, patches, srv,
                   ops, cycles, missingApiKeyProviders, legacyVars, workerVars>>

\* a debounce timeout of showApiKeyAlert fires: the one set first, as all have
\* the same delay
alertTimeout ==
    /\ timers # {}
    /\ alerts' = Append(alerts, AlertDisplayText(missingApiKeyProviders))
    /\ missingApiKeyProviders' = <<>>
    /\ timers' = timers \ {CHOOSE t \in timers : \A u \in timers : t <= u}
    /\ apiKeyAlertTimeout' = (timers' # {})
    /\ signals' = Append(signals, Fired)
    /\ UNCHANGED <<registryVars, currentConversation, docVars, domVars, sendVars, sel, patches, srv,
                   ops, cycles, legacyVars, workerVars>>

\* ------------------------------------------------------- the aggregator alone
\* error messages that reach showApiKeyAlert: the missing-key detail of each
\* vendor, and one that names no vendor
AlertMessages ==
    {ErrorMessage("nokey", n) : n \in Slots} \cup {<<"API key not configured">>}

SignalCount == Cardinality({i \in 1..Len(signals) : signals[i] # Fired})

\* showApiKeyAlert(message) is called
signalAlert(message) ==
    /\ SignalCount < MaxSignals
    /\ LET a == showApiKeyAlert([missing |-> missingApiKeyProviders,
                                 timeout |-> apiKeyAlertTimeout, timers |-> timers,
                                 signals |-> signals],
                                message)
       IN  /\ missingApiKeyProviders' = a.missing
           /\ apiKeyAlertTimeout' = a.timeout
           /\ timers' = a.timers
           /\ signals' = a.signals
    /\ UNCHANGED <<registryVars, currentConversation, docVars, domVars, alerts, sendVars, sel, patches,
                   srv, ops, cycles, legacyVars, workerVars>>

\* ----------------------------------------------------- the reconciler alone
\* selectConversation(currentConversation.id, true) runs from its GET to its end
reconcile(answer) ==
    /\ pc = "idle"
    /\ currentConversation.id # 0
    /\ SetClient(selectConversationSettled(Client, currentConversation.id, answer,
                                           srv[currentConversation.id], NoSettings, TRUE))
    /\ UNCHANGED <<alertVars, sendVars, sel, patches, srv, ops, cycles, legacyVars, workerVars>>

\* messages of a canonical list: two user messages, a reply of slot 1, a reply
\* of slot 2, a reply whose model resolves to no slot and one without a model
MsgAlphabet ==
    { UserMessage(<<"q1">>), UserMessage(<<"q2">>),
      AssistantMessage("1", DefaultModels["1"]),
      AssistantMessage("2", AltModels["2"]),
      [role |-> "assistant", content |-> <<"reply of ", "mistral">>, model |-> <<"mistral">>],
      [role |-> "assistant", content |-> <<"reply of ", "nobody">>, model |-> NoModel] }

MessageLists == UNION {[1..k -> MsgAlphabet] : k \in 0..MaxMsgs}

\* the provider_settings that disable the slots of E
DisabledSettings(E) == {[num |-> n, enabled |-> FALSE, model |-> NoModel] : n \in E}

\* the page after conversation 1 was opened while it was empty, its settings
\* disabling some slots; the store has since come to hold a message list
InitRender ==
    \E L \in MessageLists : \E E \in SUBSET Slots :
        LET st == selectConversation(
                      [currentConversation |-> NoConversation, enabledProviders |-> SlotOrder,
                       providerModels |-> DefaultModels, systemPrompt |-> <<>>,
                       referenceDocuments |-> <<>>, currentTab |-> "all",
                       panels |-> EmptyPanels, single |-> <<>>, view |-> "empty"],
                      1, NewStored, DisabledSettings(E), FALSE)
        IN  /\ enabledProviders = st.enabledProviders
            /\ providerModels = st.providerModels
            /\ currentConversation = st.currentConversation
            /\ systemPrompt = st.systemPrompt
            /\ referenceDocuments = st.referenceDocuments
            /\ currentTab = st.currentTab
            /\ panels = st.panels
            /\ single = st.single
            /\ view = st.view
            /\ sendBtnDisabled = FALSE
            /\ missingApiKeyProviders = <<>>
            /\ apiKeyAlertTimeout = FALSE
            /\ timers = {}
            /\ alerts = <<>>
            /\ signals = <<>>
            /\ pc = "idle"
            /\ cycle = NoCycle
            /\ calls = [n \in Slots |-> NoCall]
            /\ outcome = "none"
            /\ net = {}
            /\ overlap = NoOverlap
            /\ sel = NoSelect
            /\ patches = EmptyBag
            /\ srv = [c \in ConvIds |->
                        IF c = 1
                        THEN [NewStored EXCEPT !.messages = L,
                                               !.provider_settings = DisabledSettings(E)]
                        ELSE NoStored]
            /\ ops = 0
            /\ cycles = 0
            /\ InitLegacy
            /\ InitWorker

\* ------------------------------------------------- the page with a history
\* the canonical list of a conversation with one turn, which slots 1 and 2
\* answered
LiveHistory ==
    << UserMessage(<<"q0">>),
       AssistantMessage("1", DefaultModels["1"]),
       AssistantMessage("2", DefaultModels["2"]) >>

LiveStored ==
    [exists |-> TRUE, messages |-> LiveHistory, system_prompt |-> <<"be brief">>,
     documents |-> <<>>, provider_settings |-> DisabledSettings({"3", "4"})]

\* the page after the user opened conversation 1, which holds LiveHistory and
\* whose settings disable slots 3 and 4: one user operation
InitLive ==
    LET st == selectConversation(
                  [currentConversation |-> NoConversation, enabledProviders |-> SlotOrder,
                   providerModels |-> DefaultModels, systemPrompt |-> <<>>,
                   referenceDocuments |-> <<>>, currentTab |-> "all",
                   panels |-> EmptyPanels, single |-> <<>>, view |-> "empty"],
                  1, LiveStored, LiveStored.provider_settings, FALSE)
    IN  /\ enabledProviders = st.enabledProviders
        /\ providerModels = st.providerModels
        /\ currentConversation = st.currentConversation
        /\ systemPrompt = st.systemPrompt
        /\ referenceDocuments = st.referenceDocuments
        /\ currentTab = st.currentTab
        /\ panels = st.panels
        /\ single = st.single
        /\ view = st.view
        /\ sendBtnDisabled = FALSE
        /\ missingApiKeyProviders = <<>>
        /\ apiKeyAlertTimeout = FALSE
        /\ timers = {}
        /\ alerts = <<>>
        /\ signals = <<>>
        /\ pc = "idle"
        /\ cycle = NoCycle
        /\ calls = [n \in Slots |-> NoCall]
        /\ outcome = "none"
        /\ net = {}
        /\ overlap = NoOverlap
        /\ sel = NoSelect
        /\ patches = EmptyBag
        /\ srv = [c \in ConvIds |-> IF c = 1 THEN LiveStored ELSE NoStored]
        /\ ops = 1
        /\ cycles = 0
        /\ InitLegacy
        /\ InitWorker

\* assignments of models to the four slots: the defaults, the other option of
\* every select, and the other option for slots 2 and 3 only
ModelChoices ==
    {DefaultModels, AltModels,
     [n \in Slots |-> IF n \in {"2", "3"} THEN AltModels[n] ELSE DefaultModels[n]]}

\* the provider_settings a stored conversation can hold: the bodies that
\* saveProviderSettings writes, for every enabled set, and the ones of
\* StoredSettings, which miss slots, miss models or name an unknown slot
SettingsInputs ==
    StoredSettings \cup
    {{[num |-> n, enabled |-> n \in E, model |-> M[n]] : n \in Slots} :
        E \in SUBSET Slots, M \in ModelChoices}

\* the page after the user opened conversation 1, whose stored settings are any
\* of SettingsInputs; the store holds a second conversation with settings of
\* StoredSettings
InitSettings ==
    \E s \in SettingsInputs : \E t \in StoredSettings :
        LET stored == [LiveStored EXCEPT !.provider_settings = s]
            st == selectConversation(
                      [currentConversation |-> NoConversation, enabledProviders |-> SlotOrder,
                       providerModels |-> DefaultModels, systemPrompt |-> <<>>,
                       referenceDocuments |-> <<>>, currentTab |-> "all",
                       panels |-> EmptyPanels, single |-> <<>>, view |-> "empty"],
                      1, stored, stored.provider_settings, FALSE)
        IN  /\ enabledProviders = st.enabledProviders
            /\ providerModels = st.providerModels
            /\ currentConversation = st.currentConversation
            /\ systemPrompt = st.systemPrompt
            /\ referenceDocuments = st.referenceDocuments
            /\ currentTab = st.currentTab
            /\ panels = st.panels
            /\ single = st.single
            /\ view = st.view
            /\ sendBtnDisabled = FALSE
            /\ missingApiKeyProviders = <<>>
            /\ apiKeyAlertTimeout = FALSE
            /\ timers = {}
            /\ alerts = <<>>
            /\ signals = <<>>
            /\ pc = "idle"
            /\ cycle = NoCycle
            /\ calls = [n \in Slots |-> NoCall]
            /\ outcome = "none"
            /\ net = {}
            /\ overlap = NoOverlap
            /\ sel = NoSelect
            /\ patches = EmptyBag
            /\ srv = [c \in ConvIds |->
                        IF c = 1 THEN stored
                        ELSE IF c = 2 THEN [NewStored EXCEPT !.provider_settings = t]
                        ELSE NoStored]
            /\ ops = 1
            /\ cycles = 0
            /\ InitLegacy
            /\ InitWorker

\* ------------------------------------------------------- the specifications
\* what the user does
UserNext ==
    \/ \E num \in Slots : toggleProvider(num)
    \/ \E num \in Slots : \E model \in {DefaultModels[num], AltModels[num]} :
            setProviderModel(num, model)
    \/ \E id \in ConvIds : selectStart(id)
    \/ \E tab \in Slots \cup {"all"} : switchTab(tab)
    \/ goHome

\* what the user does to the context
DocNext ==
    \/ \E text \in PromptTexts : editSystemPrompt(text)
    \/ \E doc \in Documents : handleDocumentUpload(doc)
    \/ \E index \in 1..MaxDocs : removeDocument(index)

\* sendMessage up to the fan-out
EntryNext ==
    \/ \E message \in Texts : sendMessage(message)
    \/ \E ok \in BOOLEAN : createArrive(ok)
    \/ listArrive
    \/ \E answer \in SelectAnswers : autoSelectArrive(answer)

\* the requests of the cycle, its join and its reconciliation
FlightNext ==
    \/ \E num \in Slots : \E kind \in Kinds : fetchArrive(num, kind)
    \/ \E num \in Slots : jsonArrive(num)
    \/ joinArrive
    \/ \E answer \in SelectAnswers : \E settings \in StoredSettings :
            reconcileArrive(answer, settings)

\* a sendMessage started by Enter while another is running, and its requests,
\* join and reconciliation
OverlapNext ==
    \/ \E message \in Texts : sendMessageEnter(message)
    \/ \E num \in Slots : \E kind \in Kinds : overlapFetchArrive(num, kind)
    \/ \E num \in Slots : overlapJsonArrive(num)
    \/ overlapJoinArrive
    \/ \E answer \in SelectAnswers : \E settings \in StoredSettings :
            overlapReconcileArrive(answer, settings)

\* what the store and the timer do besides
EnvNext ==
    \/ \E p \in BagToSet(patches) : \E ok \in BOOLEAN : patchSettled(p, ok)
    \/ \E answer \in SelectAnswers : \E settings \in StoredSettings :
            selectArrive(answer, settings)

Next ==
    UserNext \/ DocNext \/ EntryNext \/ FlightNext \/ OverlapNext \/ EnvNext \/ alertTimeout

\* the whole page
Spec == Init /\ [][Next]_vars

\* the registry and the entry of the dispatch cycle: every user operation, and
\* sendMessage up to the fan-out of its requests
NextEntry == UserNext \/ EntryNext \/ EnvNext

SpecEntry == Init /\ [][NextEntry]_vars

\* the dispatch cycles of a page the user leaves alone
NextFlight == EntryNext \/ FlightNext \/ alertTimeout

SpecFlight == Init /\ [][NextFlight]_vars

\* SpecFlight when every response arrives and every continuation is run
SpecFlightFair ==
    /\ SpecFlight
    /\ \A n \in Slots : WF_vars(\E kind \in Kinds : fetchArrive(n, kind))
    /\ \A n \in Slots : WF_vars(jsonArrive(n))
    /\ WF_vars(joinArrive)

\* the page with a history, where the user changes the registry, the tab and
\* the context before and while a cycle is in flight; the settings PATCHes
\* stay unanswered and the alert timeout does not fire
NextLive ==
    \/ \E num \in Slots : toggleProvider(num)
    \/ \E num \in Slots : \E model \in {DefaultModels[num], AltModels[num]} :
            setProviderModel(num, model)
    \/ \E tab \in Slots \cup {"all"} : switchTab(tab)
    \/ DocNext
    \/ \E message \in Texts : sendMessage(message)
    \/ FlightNext

SpecLive == InitLive /\ [][NextLive]_vars

\* the page with a history, where the user selects conversations, goes home
\* and changes the registry, the tab and the context, and sends nothing
NextSelect ==
    \/ UserNext
    \/ DocNext
    \/ \E answer \in SelectAnswers : \E settings \in StoredSettings :
            selectArrive(answer, settings)

SpecSelect == InitLive /\ [][NextSelect]_vars

\* the page with a history, where the user sends a message and presses Enter on
\* a second one while the first is being handled
NextReenter ==
    \/ \E message \in Texts : sendMessage(message)
    \/ FlightNext
    \/ OverlapNext

SpecReenter == InitLive /\ [][NextReenter]_vars

\* the answers of a provider request in SpecCycle: a success and a failure
CycleKinds == {"ok", "network"}

\* the answers the sendMessage of an open conversation awaits, and the
\* continuations they resume
CycleArrives ==
    \/ \E num \in Slots : \E kind \in CycleKinds : fetchArrive(num, kind)
    \/ \E num \in Slots : jsonArrive(num)
    \/ joinArrive
    \/ \E answer \in SelectAnswers : \E settings \in StoredSettings :
            reconcileArrive(answer, settings)

\* the page with a history, where the user sends a message and toggles,
\* changes models, switches tab, goes home and selects conversations while
\* sendMessage runs
NextCycle ==
    \/ \E message \in Texts : sendMessage(message)
    \/ pc # "idle" /\ UserNext
    \/ CycleArrives
    \/ \E answer \in SelectAnswers : \E settings \in StoredSettings :
            selectArrive(answer, settings)

SpecCycle == InitLive /\ [][NextCycle]_vars

\* SpecCycle when every request sendMessage awaits settles and every
\* continuation of sendMessage is run
SpecCycleFair == SpecCycle /\ WF_vars(CycleArrives)

\* the registry saved to the store and loaded from it: toggles and model
\* changes, the store handling each PATCH, and conversations selected again,
\* the GET answering with the settings the store holds
NextSettings ==
    \/ \E num \in Slots : toggleProvider(num)
    \/ \E num \in Slots : \E model \in {DefaultModels[num], AltModels[num]} :
            setProviderModel(num, model)
    \/ \E p \in BagToSet(patches) : patchSettled(p, TRUE)
    \/ \E id \in ConvIds : selectStart(id)
    \/ \E answer \in SelectAnswers : selectArrive(answer, srv[sel.id].provider_settings)

SpecSettings == InitSettings /\ [][NextSettings]_vars

\* the registry of an open conversation: toggles and model changes, and the
\* store handling their PATCHes in any order
NextPatch ==
    \/ \E num \in Slots : toggleProvider(num)
    \/ \E num \in Slots : \E model \in {DefaultModels[num], AltModels[num]} :
            setProviderModel(num, model)
    \/ \E p \in BagToSet(patches) : patchSettled(p, TRUE)

SpecPatch == InitLive /\ [][NextPatch]_vars

\* the aggregator alone: signals and firings of the timeout in any order
NextAlert ==
    \/ \E message \in AlertMessages : signalAlert(message)
    \/ alertTimeout

SpecAlert == Init /\ [][NextAlert]_vars

\* SpecAlert when a pending timeout fires in the end
SpecAlertFair == SpecAlert /\ WF_vars(alertTimeout)

\* the reconciler alone: an open conversation is re-fetched and re-rendered,
\* and the user switches tabs
NextRender ==
    \/ \E answer \in SelectAnswers : reconcile(answer)
    \/ \E tab \in Slots \cup {"all"} : switchTab(tab)

SpecRender == InitRender /\ [][NextRender]_vars

\* the legacy page alone
SpecLegacy == Init /\ [][NextLegacy]_vars

\* the service worker alone
SpecWorker == Init /\ [][NextWorker]_vars

\* ---------------------------------------------------------------- properties
\* the step in which sendMessage runs lines 541-580: at its invocation when a
\* conversation is active, else when the GET of the auto-created one answers
DispatchStep ==
    \/ pc = "idle" /\ cycles' = cycles + 1 /\ currentConversation.id # 0
    \/ pc = "selecting" /\ pc' # "selecting"

\* how many requests of reqs are for slot n
RequestsFor(reqs, n) == Cardinality({i \in 1..Len(reqs) : reqs[i].panelNum = n})

\* the position of a slot id in ascending order
SlotId(n) == CHOOSE i \in 1..Len(SlotOrder) : SlotOrder[i] = n

Primaries(reqs) == {i \in 1..Len(reqs) : ~reqs[i].skip}

\* C1: one invocation of sendMessage issues exactly one provider request per
\* slot of the enabled set it was invoked with and none for another slot; with
\* the empty set it issues none and ends with NoProvidersEnabled.
C1_Stated ==
    [][DispatchStep =>
        LET E == cycle'.enabledAtSend
            reqs == cycle'.requests
        IN  /\ Len(reqs) = Len(E)
            /\ \A n \in Slots : RequestsFor(reqs, n) = IF SetHas(E, n) THEN 1 ELSE 0
            /\ Len(E) = 0 => outcome' = "NoProvidersEnabled"]_vars

\* C2 as stated: in every dispatch cycle with an enabled slot exactly one
\* request is primary, the one of the numerically lowest enabled slot id, and
\* every other request has skip_user_message = true.
C2_Stated ==
    [][(DispatchStep /\ Len(cycle'.requests) > 0) =>
        LET reqs == cycle'.requests
        IN  /\ Cardinality(Primaries(reqs)) = 1
            /\ \A i \in Primaries(reqs) :
                   \A n \in Range(enabledProviders') : SlotId(reqs[i].panelNum) <= SlotId(n)]_vars

\* C2, amended: in every dispatch cycle with an enabled slot the requests are
\* issued in the insertion order of the enabled set, exactly one request is
\* primary, the one of the slot that stands first in that order, and every
\* other request has skip_user_message = true.
C2_Amended ==
    [][(DispatchStep /\ Len(cycle'.requests) > 0) =>
        LET reqs == cycle'.requests
        IN  /\ [i \in 1..Len(reqs) |-> reqs[i].panelNum] = enabledProviders'
            /\ Primaries(reqs) = {1}
            /\ \A i \in 2..Len(reqs) : reqs[i].skip]_vars

\* a cycle whose primary request is not the one of the lowest enabled slot id
C2_Witness ==
    /\ pc = "inflight"
    /\ currentConversation.id # 0
    /\ Len(cycle.requests) >= 2
    /\ Primaries(cycle.requests) = {1}
    /\ \E n \in Range(cycle.activeProviderNums) :
           SlotId(n) < SlotId(cycle.requests[1].panelNum)

LoadingSlots == {n \in Slots : HasId(panels[n], LoadingId(n))}

\* C3: when sendMessage is invoked while the enabled set is empty, it makes no
\* network request of any kind and the cycle ends in Idle with the send control
\* enabled and no slot loading.
C3_Stated ==
    [][(pc = "idle" /\ cycles' = cycles + 1 /\ Len(enabledProviders) = 0) =>
        /\ net' = {}
        /\ pc' = "idle"
        /\ ~sendBtnDisabled'
        /\ LoadingSlots' = {}]_vars

\* the slots of the requests of the running cycle
RequestSlots == {cycle.requests[i].panelNum : i \in 1..Len(cycle.requests)}

Unsettled(n) == calls[n].status \in {"fetch", "json"}

\* C4: whichever requests of a cycle fail and in whatever order the answers
\* arrive, no sendToProvider promise rejects and sendMessage is not rejected by
\* a provider-level error; a step that settles one request leaves the others
\* as they are; every request that is in flight settles, and the join completes.
C4_FailureIsolation ==
    /\ [](\A n \in Slots : calls[n].status # "none" => calls[n].promise # "rejected")
    /\ [](outcome # "ProviderError")
    /\ [][\A n \in Slots : \A k \in Slots :
              (n # k /\ Unsettled(n) /\ calls'[n].status = "done") => calls'[k] = calls[k]]_vars
    /\ \A n \in Slots : Unsettled(n) ~> (calls[n].status = "done")
    /\ (pc = "inflight") ~> (pc # "inflight" /\ \A n \in RequestSlots : calls[n].status = "done")

\* the join of a cycle in which three requests failed in three ways has completed
C4_Witness ==
    /\ pc = "reconciling"
    /\ calls["1"].kind = "http"
    /\ calls["2"].kind = "nonjson"
    /\ calls["3"].kind = "network"
    /\ calls["4"].kind = "ok"
    /\ \A n \in Slots : calls[n].status = "done" /\ calls[n].promise = "fulfilled"

\* C5: the GET of the reconciling selectConversation is issued only in a step
\* before which every request of the cycle has settled.
C5_ReconcileAfterJoin ==
    [][(pc # "reconciling" /\ pc' = "reconciling") =>
        /\ Len(cycle.requests) = Len(cycle.activeProviderNums)
        /\ \A i \in 1..Len(cycle.requests) :
               calls[cycle.requests[i].panelNum].status = "done"]_vars

\* the re-fetch of a cycle of four requests, of which some failed, is in flight
C5_Witness ==
    /\ pc = "reconciling"
    /\ "GET conversation" \in net
    /\ Len(cycle.requests) = 4
    /\ calls["1"].kind = "ok"
    /\ calls["2"].kind = "nokey"
    /\ calls["3"].kind = "ok"
    /\ calls["4"].kind = "network"

\* the step in which the missing-key answer of slot n reaches the catch
NoKeyArrives(n) ==
    /\ calls[n].status = "json"
    /\ calls[n].kind = "nokey"
    /\ calls'[n].status = "done"

ErrorCount(seq) == Cardinality({i \in 1..Len(seq) : seq[i].role = "error"})

Signalled(n) ==
    /\ SetHas(missingApiKeyProviders', PROVIDER_INFO[n].name)
    /\ apiKeyAlertTimeout'
    /\ signals' = Append(signals, ErrorMessage("nokey", n))

JoinRule(names) ==
    LET k == Len(names)
    IN  IF k = 2 THEN <<names[1], " & ", names[2]>>
        ELSE [i \in 1..(2 * k - 1) |->
                 IF i % 2 = 1 THEN names[(i + 1) \div 2]
                 ELSE IF i = 2 * k - 2 THEN ", & " ELSE ", "]

\* the provider names of a sequence of messages, each once, in order of first
\* occurrence
RECURSIVE DistinctNames(_)
DistinctNames(msgs) ==
    IF msgs = <<>> THEN <<>>
    ELSE LET d == DistinctNames(SubSeq(msgs, 1, Len(msgs) - 1))
             x == AlertProviderName(msgs[Len(msgs)])
         IN  IF x = NULL \/ x \in Range(d) THEN d ELSE Append(d, x)

\* the positions of the firings in the history, and the signals of the j-th
\* batch: those between the (j-1)-th firing and the j-th
Firings == {i \in 1..Len(signals) : signals[i] = Fired}

FiringAt(j) == CHOOSE i \in Firings : Cardinality({h \in Firings : h <= i}) = j

BatchOf(j) ==
    SubSeq(signals, IF j = 1 THEN 1 ELSE FiringAt(j - 1) + 1, FiringAt(j) - 1)

\* the signals since the last firing
PendingSignals ==
    LET last == IF Firings = {} THEN 0
                ELSE CHOOSE i \in Firings : \A h \in Firings : h <= i
    IN  SubSeq(signals, last + 1, Len(signals))

AllNoKey == \A n \in Slots : calls[n].status = "done" /\ calls[n].kind = "nokey"

StatedText == <<"ChatGPT", ", ", "Claude", ", ", "Gemini", ", & ", "Grok">>

\* C7 as stated: when all four requests of a cycle have failed for a missing
\* key, exactly one notification is shown and its text is
\* "ChatGPT, Claude, Gemini, & Grok", whatever the arrival order and the
\* interleaving with the timeout.
C7_Stated == (AllNoKey /\ ~apiKeyAlertTimeout) => alerts = <<StatedText>>

\* the positions in the history of the four failures of the cycle that has
\* just failed entirely (the last four signals), and of the firings after the
\* first of them
SignalPositions == {i \in 1..Len(signals) : signals[i] # Fired}

CycleSignals ==
    {i \in SignalPositions : Cardinality({h \in SignalPositions : h >= i}) <= 4}

CycleFirings == {f \in Firings : \E i \in CycleSignals : i < f}

\* C7, amended: when all four requests of a cycle have failed for a missing
\* key, every notification lists by the join rule, in arrival order, the
\* providers whose failures arrived since the notification before it; the
\* four failures of the cycle name each of the four providers once; the
\* timeout is pending exactly while a failure is not yet notified; and once it
\* is idle the cycle's failures are spread over between one and four
\* notifications (one, of the four names in arrival order, when the timeout
\* fired just before the first of them and not between them).
C7_Amended ==
    AllNoKey =>
        /\ Len(alerts) = Cardinality(Firings)
        /\ \A j \in 1..Len(alerts) : alerts[j] = JoinRule(DistinctNames(BatchOf(j)))
        /\ missingApiKeyProviders = DistinctNames(PendingSignals)
        /\ apiKeyAlertTimeout <=> PendingSignals # <<>>
        /\ Cardinality(CycleSignals) = 4
        /\ {AlertProviderName(signals[i]) : i \in CycleSignals}
               = {PROVIDER_INFO[n].name : n \in Slots}
        /\ ~apiKeyAlertTimeout => Cardinality(CycleFirings) \in 1..4
        /\ \A f \in Firings :
               (CycleSignals = (f - 4)..(f - 1) /\ (f - 5 = 0 \/ f - 5 \in Firings)) =>
                   alerts[Cardinality({h \in Firings : h <= f})] =
                       JoinRule([i \in 1..4 |-> AlertProviderName(signals[f - 5 + i])])

\* one notification for the four failures, which names them in another order
\* than that of the slots
C7_Witness ==
    /\ AllNoKey
    /\ ~apiKeyAlertTimeout
    /\ Len(alerts) = 1
    /\ alerts[1] = <<"Gemini", ", ", "ChatGPT", ", ", "Grok", ", & ", "Claude">>

\* C8: the notifications are one per firing of the timeout; each lists by the
\* join rule, once each and in order of first arrival, the provider names of
\* the signals that arrived since the firing before it; and the timeout is
\* pending exactly while a signal has arrived since the last firing.
C8_Coalescing ==
    /\ Len(alerts) = Cardinality(Firings)
    /\ \A j \in 1..Len(alerts) :
           /\ BatchOf(j) # <<>>
           /\ DistinctNames(BatchOf(j)) # <<>> =>
                  alerts[j] = JoinRule(DistinctNames(BatchOf(j)))
    /\ apiKeyAlertTimeout <=> PendingSignals # <<>>
    /\ missingApiKeyProviders = DistinctNames(PendingSignals)

\* four signals, two of them of the same provider, then the firing: one
\* notification of three names
C8_Witness ==
    /\ signals = <<ErrorMessage("nokey", "2"), ErrorMessage("nokey", "1"),
                   ErrorMessage("nokey", "2"), ErrorMessage("nokey", "4"), Fired>>
    /\ alerts = << <<"Claude", ", ", "ChatGPT", ", & ", "Grok">> >>
    /\ ~apiKeyAlertTimeout

\* the positions of the user messages of L to which slot S replied: an
\* assistant message whose model resolves to S follows before the next user
\* message
RepliedTurns(L, S) ==
    {k \in 1..Len(L) :
        /\ L[k].role = "user"
        /\ \E j \in (k + 1)..Len(L) :
              /\ L[j].role = "assistant"
              /\ getProviderPanel(L[j].model) = S
              /\ \A h \in (k + 1)..j : L[h].role # "user"}

\* the contents of the messages of L at the positions ks, in order
ContentsAt(L, ks) ==
    [i \in 1..Cardinality(ks) |->
        L[CHOOSE k \in ks : Cardinality({h \in ks : h <= k}) = i].content]

UserContents(panel) ==
    LET us == SelectSeq(panel, LAMBDA b : b.role = "user")
    IN  [i \in 1..Len(us) |-> us[i].content]

\* C9: after renderMessages has drawn the grid, the user bubbles of the panel
\* of every slot S are the user messages of the list to which S replied in the
\* same turn, in order, if S is enabled, and none if it is not.
C9_PanelMembership ==
    currentTab = "all" =>
        \A S \in Slots :
            UserContents(panels[S]) =
                IF SetHas(enabledProviders, S)
                THEN ContentsAt(currentConversation.messages,
                                RepliedTurns(currentConversation.messages, S))
                ELSE <<>>

\* a list of two turns: slot 2 replied to the first, nobody to the second
C9_Witness ==
    /\ currentTab = "all"
    /\ currentConversation.messages =
          <<UserMessage(<<"q1">>), AssistantMessage("2", AltModels["2"]),
            UserMessage(<<"q2">>)>>
    /\ SetHas(enabledProviders, "1")
    /\ SetHas(enabledProviders, "2")
    /\ UserContents(panels["2"]) = << <<"q1">> >>
    /\ panels["1"] = <<>>

\* one more run of selectConversation(id, true) would change nothing the
\* page shows
Reconciled ==
    LET st == selectConversation(Client, currentConversation.id,
                                 srv[currentConversation.id], NoSettings, TRUE)
    IN  /\ st.panels = panels
        /\ st.single = single
        /\ st.currentTab = currentTab
        /\ st.view = view
        /\ st.currentConversation = currentConversation

\* C10: after a run of selectConversation(id, true), a second run right after
\* it leaves the contents of every panel and of the single view as the first
\* left them.
C10_Idempotent ==
    [][reconcile("ok") =>
        LET second == selectConversation(Client', currentConversation'.id,
                                         srv'[currentConversation'.id], NoSettings, TRUE)
        IN  /\ second.panels = panels'
            /\ second.single = single'
            /\ second.currentTab = currentTab'
            /\ second.view = view'
            /\ second.currentConversation = currentConversation']_vars

\* a conversation has been re-fetched and drawn: the cache is the stored list
\* and two panels hold bubbles
C10_Witness ==
    /\ currentConversation.messages # <<>>
    /\ currentConversation.messages = srv[currentConversation.id].messages
    /\ Len(panels["1"]) >= 2
    /\ Len(panels["2"]) >= 1
    /\ Reconciled

\* the step in which the user toggles slot n off
ToggledOff(n) ==
    /\ ops' = ops + 1
    /\ SetHas(enabledProviders, n)
    /\ ~SetHas(enabledProviders', n)

\* the panels after toggleProvider(n) has enabled slot n in the state st
ToggledOnAgain(st, n) ==
    renderMessages(st.currentConversation.messages, SetAdd(st.enabledProviders, n),
                   st.currentTab, st.panels, st.single).panels

\* C11: toggling a slot off while the grid of the active conversation is shown
\* empties that slot's panel and changes neither the cached nor the stored
\* message list, and toggling the same slot on again gives that panel the
\* contents it had before it was toggled off.
C11_Stated ==
    [][\A n \in Slots :
          (ToggledOff(n) /\ currentConversation.id # 0 /\ currentTab = "all") =>
              /\ panels'[n] = <<>>
              /\ currentConversation' = currentConversation
              /\ srv' = srv
              /\ ToggledOnAgain(Client', n)[n] = panels[n]]_vars

\* the step in which the reconciling selectConversation of a cycle ends
ReconcileStep == pc = "reconciling" /\ pc' = "idle"

\* C12: the reconciling step of a cycle leaves the enabled set and the model
\* of every slot as they were, whatever provider settings the answer carries,
\* so what the user toggled or selected during the flight stays in effect.
C12_ReconcileFrame ==
    [][ReconcileStep =>
          /\ enabledProviders' = enabledProviders
          /\ providerModels' = providerModels]_vars

\* a cycle of slots 1 and 2 has been reconciled with the stored list; during
\* its flight the user enabled slot 3 and chose another model for slot 1
C12_Witness ==
    /\ pc = "idle"
    /\ outcome = "done"
    /\ currentConversation.messages = srv[1].messages
    /\ Len(currentConversation.messages) > Len(LiveHistory)
    /\ cycle.activeProviderNums = <<"1", "2">>
    /\ cycle.requests[1].model = DefaultModels["1"]
    /\ enabledProviders = <<"1", "2", "3">>
    /\ providerModels["1"] = AltModels["1"]

\* C13: the loading indicator of a slot is in its panel while the slot's
\* request awaits its response, and is absent once the response has arrived,
\* whatever the sibling requests and the user do in the meantime.
C13_Stated ==
    \A n \in Slots :
        /\ calls[n].status = "fetch" => HasId(panels[n], LoadingId(n))
        /\ calls[n].status \in {"json", "done"} => ~HasId(panels[n], LoadingId(n))

\* C14: while the grid is shown, the panel of a slot that is not enabled holds
\* no bubble, also when the slot is toggled off while its request is in flight.
C14_Stated ==
    currentTab = "all" =>
        \A n \in Slots : ~SetHas(enabledProviders, n) => panels[n] = <<>>

\* the HTTP status of a response of each kind
ResponseStatus(kind) ==
    CASE kind = "ok" -> "200"
      [] kind = "nokey" -> "400"
      [] kind = "http" -> "500"
      [] kind = "nonjson" -> "502"

\* the step in which the body of slot n's response turns out not to be JSON
NonJsonArrives(n) ==
    /\ calls[n].status = "json"
    /\ calls[n].kind = "nonjson"
    /\ calls'[n].status = "done"

\* C15: when the response to the request of a slot is not JSON, the failure
\* shown for that slot is an error bubble whose text contains the HTTP status
\* of the response.
C15_Stated ==
    [][\A n \in Slots : NonJsonArrives(n) =>
          /\ Len(panels'[n]) = Len(panels[n]) + 1
          /\ panels'[n][Len(panels'[n])].role = "error"
          /\ Includes(panels'[n][Len(panels'[n])].content, ResponseStatus("nonjson"))]_vars

\* the step in which the GET of a selectConversation the user started fails
SelectFails ==
    \E answer \in SelectAnswers \ {"ok"} : \E settings \in StoredSettings :
        selectArrive(answer, settings)

\* C16: when selectConversation fails, by a rejected request, an error status
\* or a body that does not parse, the cached conversation, the enabled set,
\* the models, the system prompt, the reference documents, the tab and the
\* contents of every panel and of the single view are as before the call.
C16_FailedSelectFrame == [][SelectFails => Client' = Client]_vars

\* a selectConversation has failed on a page with a document, drawn panels and
\* slots 3 and 4 disabled
C16_Witness ==
    /\ sel = [id |-> 0, last |-> "failed"]
    /\ currentConversation.id = 1
    /\ enabledProviders = <<"1", "2">>
    /\ Len(referenceDocuments) = 1
    /\ systemPrompt = <<"be brief">>
    /\ Len(panels["1"]) = 2

\* the step of a toggleProvider or a setProviderModel
RegistryStep ==
    /\ ops' = ops + 1
    /\ enabledProviders' # enabledProviders \/ providerModels' # providerModels

\* the PATCH body that lists, for the active conversation, the enabled flag and
\* the model of each of the four slots as they are now
SettingsSnapshot ==
    [conv |-> currentConversation.id,
     settings |-> {[num |-> n, enabled |-> SetHas(enabledProviders, n),
                    model |-> providerModels[n]] : n \in Slots}]

\* the step in which the fetch of a settings PATCH fails
PatchFails == \E p \in BagToSet(patches) : patchSettled(p, FALSE)

\* C17: every toggleProvider and setProviderModel on an active conversation
\* issues exactly one PATCH to it, whose body is the snapshot of the four
\* slots as the mutation left them; the failure of a PATCH changes nothing on
\* the page and shows nothing to the user.
C17_SettingsPatch ==
    /\ [][(RegistryStep /\ currentConversation.id # 0) =>
              patches' = patches (+) SetToBag({SettingsSnapshot'})]_vars
    /\ [][PatchFails =>
              /\ Client' = Client
              /\ UNCHANGED <<alertVars, sendVars, sel, srv>>]_vars

\* conversation 1 is open, the user has selected other models for slots 2 and
\* 3 (two PATCHes; no stored settings carry these models), and one of the two
\* PATCHes has been answered
C17_Witness ==
    /\ currentConversation.id = 1
    /\ providerModels["2"] = AltModels["2"]
    /\ providerModels["3"] = AltModels["3"]
    /\ BagCardinality(patches) = 1

\* the step of toggleProvider(n)
ToggleStep(n) ==
    /\ ops' = ops + 1
    /\ SetHas(enabledProviders', n) # SetHas(enabledProviders, n)

\* the step in which a selectConversation the user started ends
UserSelectStep == sel.id # 0 /\ sel'.id = 0

\* C18: toggleProvider(S) changes the enabled flag of S and of no other slot
\* and no model; and once no slot is enabled, none becomes enabled except by
\* the user, who toggles a slot on or opens a conversation with its settings.
C18_Stated ==
    /\ [][\A n \in Slots : ToggleStep(n) =>
              /\ \A k \in Slots \ {n} :
                     SetHas(enabledProviders', k) = SetHas(enabledProviders, k)
              /\ providerModels' = providerModels]_vars
    /\ [][(Len(enabledProviders) = 0 /\ Len(enabledProviders') # 0) =>
              \/ \E n \in Slots : ToggleStep(n)
              \/ UserSelectStep]_vars

\* C19: the requests of a cycle all carry the message of the cycle and one
\* context, the one buildContext gives for the prompt and the documents as
\* they are when the requests are issued; while the cycle is in flight no
\* request changes, whatever the user does to the prompt or the documents.
C19_SharedContext ==
    /\ [](\A i \in 1..Len(cycle.requests) :
             /\ cycle.requests[i].message = cycle.message
             /\ cycle.requests[i].system_prompt = cycle.requests[1].system_prompt)
    /\ [][DispatchStep =>
              \A i \in 1..Len(cycle'.requests) :
                  cycle'.requests[i].system_prompt =
                      buildContext(systemPrompt', referenceDocuments')]_vars
    /\ [][(pc = "inflight" /\ pc' = "inflight") =>
              /\ cycle'.requests = cycle.requests
              /\ \A n \in Slots : calls[n].status # "none" => calls'[n].req = calls[n].req]_vars

\* a cycle of two requests sent with the prompt "be brief" and one document;
\* since then the user has typed another prompt and one request has settled
C19_Witness ==
    /\ pc = "inflight"
    /\ Len(cycle.requests) = 2
    /\ cycle.requests[2].system_prompt =
           <<"be brief", "=== REFERENCE DOCUMENTS ===", "--- ", "a.txt", " ---", "alpha">>
    /\ systemPrompt = <<" ", "be kind", " ">>
    /\ calls["1"].status = "done"
    /\ calls["2"].status = "fetch"

UserCount(panel) == Cardinality({i \in 1..Len(panel) : panel[i].role = "user"})

\* how many user turns of the list the panel of slot S shows when
\* renderMessages draws the grid
RenderedTurnsOf(messages, enabled, S) ==
    IF SetHas(enabled, S) THEN Cardinality(RepliedTurns(messages, S)) ELSE 0

RenderedTurns(S) == RenderedTurnsOf(currentConversation.messages, enabledProviders, S)

\* C20 as stated: in every state in which the grid of a conversation is shown,
\* the panel of every enabled slot holds as many user bubbles as the list has
\* user turns to which that slot replied.
C20_Stated ==
    (currentTab = "all" /\ currentConversation.id # 0) =>
        \A S \in Range(enabledProviders) : UserCount(panels[S]) = RenderedTurns(S)

\* the steps in which renderMessages draws the grid of the conversation
GridRenderStep ==
    /\ currentConversation'.id # 0
    /\ currentTab' = "all"
    /\ \/ \E num \in Slots : toggleProvider(num)
       \/ switchTab("all")
       \/ \E settings \in StoredSettings : reconcileArrive("ok", settings)

\* C20, amended: every renderMessages of the grid leaves in the panel of each
\* slot one user bubble per user turn of the cached list to which the slot
\* replied, if the slot is enabled, and none if it is not; the fan-out of
\* sendMessage adds one more user bubble, that of the turn being sent, to the
\* panel of every slot it sends to, before any reply; so while the grid is
\* shown a panel holds the rendered user bubbles and, for a slot of a
\* dispatched cycle, at most one more per cycle.
C20_Amended ==
    /\ [][GridRenderStep =>
              \A S \in Slots :
                  UserCount(panels'[S]) =
                      RenderedTurnsOf(currentConversation'.messages, enabledProviders', S)]_vars
    /\ [][DispatchStep =>
              \A S \in Range(cycle'.activeProviderNums) :
                  UserCount(panels'[S]) = UserCount(panels[S]) + 1]_vars
    /\ []((currentTab = "all" /\ currentConversation.id # 0) =>
             \A S \in Slots :
                 /\ UserCount(panels[S]) - RenderedTurns(S) \in 0..cycles
                 /\ UserCount(panels[S]) # RenderedTurns(S) => S \in CycleSlots)

\* the request of slot 2 has failed and the panel of slot 2 shows, besides the
\* turn slot 2 replied to, the user bubble of the turn it did not reply to
C20_Witness ==
    /\ pc = "inflight"
    /\ currentTab = "all"
    /\ calls["2"].status = "done"
    /\ calls["2"].kind = "network"
    /\ RenderedTurns("2") = 1
    /\ UserCount(panels["2"]) = 2
    /\ panels["2"][Len(panels["2"])].role = "error"

\* C21: the step that starts a cycle issues the request of every slot of the
\* cycle, one per slot, before any response is handled; no request is issued in
\* a later step, so none is started after another of the cycle has settled.
C21_FanOutBeforeAwait ==
    /\ [][DispatchStep =>
              /\ Len(cycle'.requests) = Len(cycle'.activeProviderNums)
              /\ \A n \in Range(cycle'.activeProviderNums) :
                     calls'[n].status = "fetch" \/ calls'[n].kind = "nullconv"]_vars
    /\ [][(\E n \in Slots : calls'[n].status = "fetch" /\ calls[n].status # "fetch")
              => DispatchStep]_vars
    /\ [](\A n \in Slots :
             (calls[n].status \in {"json", "done"} /\ calls[n].kind # "nullconv") =>
                 \A k \in CycleSlots : calls[k].status # "none")

\* the reply of slot 3 has been drawn while the three other requests of the
\* cycle, issued with it, await their responses
C21_Witness ==
    /\ pc = "inflight"
    /\ Len(cycle.requests) = 4
    /\ calls["3"].status = "done"
    /\ calls["3"].kind = "ok"
    /\ \A n \in {"1", "2", "4"} : calls[n].status = "fetch"

\* the bubbles of a container other than loading indicators
NonLoading(seq) == SelectSeq(seq, LAMBDA b : b.role # "loading")

\* the step in which the response of slot n has its bubble drawn: the reply, or
\* the error of a failure other than a missing key
BubbleArrives(n) ==
    /\ Unsettled(n)
    /\ calls'[n].status = "done"
    /\ calls'[n].kind \in {"ok", "http", "nonjson", "network"}

\* C22: the step that handles the response of slot S adds one bubble to the
\* view of S, the panel of S in the grid or the single view when it shows S,
\* and adds no bubble to the panel of another slot nor to the single view while
\* it shows another slot.
C22_Stated ==
    [][\A n \in Slots : BubbleArrives(n) =>
          /\ \A k \in Slots \ {n} : NonLoading(panels'[k]) = NonLoading(panels[k])
          /\ currentTab = "all" =>
                 Len(NonLoading(panels'[n])) = Len(NonLoading(panels[n])) + 1
          /\ currentTab = n => Len(NonLoading(single')) = Len(NonLoading(single)) + 1
          /\ currentTab \notin {"all", n} => NonLoading(single') = NonLoading(single)]_vars

\* the step in which the transport-level failure of slot n's request reaches
\* the catch of sendToProvider
TransportFails(n) ==
    /\ Unsettled(n)
    /\ calls'[n].status = "done"
    /\ calls'[n].kind \in {"http", "nonjson", "network"}

\* C23: the step that handles a transport-level failure of slot S's request (no
\* response, an error status without a missing-key detail, a body that is not
\* JSON) adds exactly one error bubble to the panel of S, leaves no loading
\* indicator of S, and changes neither the panel nor the request of another
\* slot, nor the single view of another slot.
C23_Stated ==
    [][\A n \in Slots : TransportFails(n) =>
          /\ ErrorCount(panels'[n]) = ErrorCount(panels[n]) + 1
          /\ ~HasId(panels'[n], LoadingId(n))
          /\ \A k \in Slots \ {n} : panels'[k] = panels[k] /\ calls'[k] = calls[k]
          /\ currentTab \notin {"all", n} => single' = single]_vars

\* the step in which the reconciling selectConversation of a cycle ends after
\* a successful re-fetch
ReconcileOk == \E settings \in StoredSettings : reconcileArrive("ok", settings)

\* the bubbles of the messages of L at the positions ks, in order
BubblesAt(L, ks) ==
    [i \in 1..Cardinality(ks) |->
        LET k == CHOOSE h \in ks : Cardinality({g \in ks : g <= h}) = i
        IN  Bubble(L[k].role, L[k].content)]

\* what the canonical list L alone gives the panel of slot S: the user
\* messages S replied to and the other messages whose model resolves to S, if
\* S is enabled
CanonicalPanel(L, enabled, S) ==
    IF SetHas(enabled, S)
    THEN BubblesAt(L, RepliedTurns(L, S) \cup
                      {k \in 1..Len(L) : L[k].role # "user" /\ getProviderPanel(L[k].model) = S})
    ELSE <<>>

\* what L alone gives the single view of a tab: every user message and the
\* messages whose model resolves to the tab's slot
CanonicalSingle(L, tab) ==
    BubblesAt(L, {k \in 1..Len(L) : L[k].role = "user" \/ getProviderPanel(L[k].model) = tab})

\* C24 as stated: after the reconciling step with a successful re-fetch every
\* panel holds what the canonical list and the enabled set alone give it.
C24_Stated ==
    [][ReconcileOk =>
          \A S \in Slots :
              panels'[S] = CanonicalPanel(srv[cycle.convId].messages, enabledProviders', S)]_vars

\* C24, amended: the reconciling step with a successful re-fetch caches the
\* canonical list and redraws the view that is shown from it and the enabled
\* set alone: in the grid tab every panel, in a single tab the single view,
\* while the four panels, which are hidden, stay as the flight left them until
\* the grid is next drawn.
C24_Amended ==
    [][ReconcileOk =>
          LET L == srv[cycle.convId].messages
          IN  /\ currentConversation' = [id |-> cycle.convId, messages |-> L]
              /\ currentTab' = currentTab
              /\ IF currentTab = "all"
                 THEN /\ view' = "grid"
                      /\ \A S \in Slots :
                             panels'[S] = CanonicalPanel(L, enabledProviders', S)
                      /\ single' = single
                 ELSE /\ view' = "single"
                      /\ single' = CanonicalSingle(L, currentTab)
                      /\ panels' = panels]_vars

\* a cycle sent from the single tab of slot 1 has been reconciled: the single
\* view shows the canonical list, and the hidden panel of slot 2, whose request
\* failed, still ends with the optimistic user bubble
C24_Witness ==
    /\ pc = "idle"
    /\ outcome = "done"
    /\ currentTab = "1"
    /\ calls["2"].status = "done"
    /\ calls["2"].kind = "network"
    /\ currentConversation.messages = srv[1].messages
    /\ Len(currentConversation.messages) > Len(LiveHistory)
    /\ single = CanonicalSingle(currentConversation.messages, "1")
    /\ panels["2"] # CanonicalPanel(currentConversation.messages, enabledProviders, "2")
    /\ panels["2"][Len(panels["2"])] = Bubble("user", cycle.message)

\* the panels of the grid that hold a bubble of the message msg
PanelsOf(msg) ==
    {S \in Slots : \E i \in 1..Len(panels[S]) : panels[S][i] = Bubble(msg.role, msg.content)}

\* the known keywords are in none of the tokens of the model string
MatchesNoKeyword(model) ==
    \A kw \in {"openai", "gpt", "claude", "gemini", "grok"} : ~Includes(model, kw)

\* C26: in the grid view a message that is not a user message is drawn in at
\* most one panel, that of the slot its model resolves to, and in none when its
\* model is empty or matches no known keyword; drawing changes neither the
\* cached nor the stored message list, in which such a message stays.
C26_UnresolvedDropped ==
    /\ [](\A model \in {m.model : m \in MsgAlphabet} :
             MatchesNoKeyword(model) => getProviderPanel(model) = NULL)
    /\ [](currentTab = "all" =>
             \A k \in 1..Len(currentConversation.messages) :
                 LET msg == currentConversation.messages[k]
                 IN  msg.role # "user" =>
                         /\ Cardinality(PanelsOf(msg)) <= 1
                         /\ PanelsOf(msg) \subseteq {getProviderPanel(msg.model)}
                         /\ MatchesNoKeyword(msg.model) => PanelsOf(msg) = {})
    /\ [][/\ srv' = srv
          /\ currentConversation'.messages \in
                 {currentConversation.messages, srv[currentConversation.id].messages}]_vars

\* the grid of a list of a question, a reply of an unknown model and a reply of
\* slot 1: panel 1 holds the question and its reply, the other panels nothing
C26_Witness ==
    /\ currentTab = "all"
    /\ view = "grid"
    /\ enabledProviders = SlotOrder
    /\ currentConversation.messages =
          << UserMessage(<<"q1">>),
             [role |-> "assistant", content |-> <<"reply of ", "mistral">>,
              model |-> <<"mistral">>],
             AssistantMessage("1", DefaultModels["1"]) >>
    /\ panels["1"] = << Bubble("user", <<"q1">>),
                        Bubble("assistant", <<"reply of ", "openai">>) >>
    /\ \A S \in Slots \ {"1"} : panels[S] = <<>>

\* the steps that add a signal, and a firing, to the history
SignalStep == Len(signals') = Len(signals) + 1 /\ signals'[Len(signals')] # Fired

FiringStep == Len(signals') = Len(signals) + 1 /\ signals'[Len(signals')] = Fired

\* C27: a signal adds the name of its provider to the collected names, keeps
\* the names already there, and leaves exactly one timeout pending, the one it
\* has just set; so at most one timeout is pending at any time; the timeout
\* that fires is the one set by the last signal, no signal having arrived since
\* it was set, and its notification names the provider of every signal since
\* the firing before; and while signals are not yet notified a firing follows.
C27_Debounce ==
    /\ [][SignalStep =>
              LET name == AlertProviderName(signals'[Len(signals')])
              IN  /\ name # NULL => SetHas(missingApiKeyProviders', name)
                  /\ \A x \in Range(missingApiKeyProviders) :
                         SetHas(missingApiKeyProviders', x)
                  /\ timers' = {Len(signals')}
                  /\ apiKeyAlertTimeout']_vars
    /\ [](Cardinality(timers) <= 1)
    /\ [][FiringStep =>
              /\ timers = {Len(signals)}
              /\ signals[Len(signals)] # Fired
              /\ timers' = {}
              /\ \A i \in 1..Len(PendingSignals) :
                     AlertProviderName(PendingSignals[i]) # NULL =>
                         AlertProviderName(PendingSignals[i])
                             \in Range(alerts'[Len(alerts')])]_vars
    /\ (PendingSignals # <<>>) ~> (PendingSignals = <<>>)

\* two signals, the second having restarted the timeout of the first, then one
\* firing, which names both providers
C27_Witness ==
    /\ signals = <<ErrorMessage("nokey", "1"), ErrorMessage("nokey", "3"), Fired>>
    /\ alerts = << <<"ChatGPT", " & ", "Gemini">> >>
    /\ timers = {}
    /\ ~apiKeyAlertTimeout

\* C28: a firing of the timeout leaves the collected names empty, and every
\* provider a notification names has a signal among those that arrived since
\* the notification before it.
C28_ClearedAfterFlush ==
    /\ [][FiringStep => missingApiKeyProviders' = <<>>]_vars
    /\ [](\A j \in 1..Len(alerts) : \A n \in Slots :
             PROVIDER_INFO[n].name \in Range(alerts[j]) =>
                 \E i \in 1..Len(BatchOf(j)) :
                     AlertProviderName(BatchOf(j)[i]) = PROVIDER_INFO[n].name)

\* two notifications, the second without the provider of the first
C28_Witness ==
    /\ signals = <<ErrorMessage("nokey", "1"), Fired, ErrorMessage("nokey", "2"), Fired>>
    /\ alerts = << <<"ChatGPT">>, <<"Claude">> >>
    /\ missingApiKeyProviders = <<>>

\* the enabled slots and the models the stored settings of conversation c give
\* a page that loads them
StoredRegistry(c) ==
    LET loaded == loadProviderSettings(srv[c].provider_settings)
    IN  [enabled |-> Range(loaded.enabledProviders), models |-> loaded.providerModels]

\* C30: once no settings PATCH is in flight, every one having been handled by
\* the store, the settings stored for the active conversation give the enabled
\* set and the models of the page, in whatever order the PATCHes were handled.
C30_Stated ==
    (patches = EmptyBag /\ currentConversation.id # 0) =>
        StoredRegistry(currentConversation.id) =
            [enabled |-> Range(enabledProviders), models |-> providerModels]

\* the sendMessage activations that have issued their requests and still await
\* some of them
InFlightCycles ==
    (IF pc = "inflight" THEN {"first"} ELSE {}) \cup
    (IF overlap.pc = "inflight" THEN {"overlapping"} ELSE {})

\* C29: while the requests of a sendMessage have not all settled, no other
\* sendMessage is started, so at most one cycle is in flight.
C29_Stated ==
    /\ [](Cardinality(InFlightCycles) <= 1)
    /\ [][(pc = "inflight" /\ overlap.pc = "idle") => overlap'.pc = "idle"]_vars

\* the phase of the dispatch cycle sendMessage is in: it builds its requests
\* from the creation of a missing conversation to the fan-out, which an open
\* conversation makes one step of
Phase(p) ==
    CASE p = "idle" -> "Idle"
      [] p \in {"creating", "listing", "selecting"} -> "Building"
      [] p = "inflight" -> "InFlight"
      [] p = "reconciling" -> "Reconciling"

\* the steps of the order Idle, Building, InFlight, Reconciling, Idle; a cycle
\* that is given up while it builds returns to Idle
PhaseOrder ==
    {<<"Idle", "Building">>, <<"Idle", "InFlight">>, <<"Building", "InFlight">>,
     <<"Building", "Idle">>, <<"InFlight", "Reconciling">>, <<"Reconciling", "Idle">>}

\* C25: a dispatch cycle changes phase only along Idle, Building, InFlight,
\* Reconciling, Idle, and when every request and the re-fetch settle a started
\* cycle returns to Idle with the send button enabled, whatever the requests
\* answer and whatever the user does in the meantime.
C25_Stated ==
    /\ [][Phase(pc') # Phase(pc) => <<Phase(pc), Phase(pc')>> \in PhaseOrder]_vars
    /\ (pc # "idle") ~> (pc = "idle" /\ ~sendBtnDisabled)

\* C31: every request of a dispatch cycle posts to the conversation that was
\* open when the requests were issued, and when the requests have settled the
\* cycle re-fetches that same conversation, whatever the user selected or left
\* in the meantime.
C31_Stated ==
    /\ [](pc = "inflight" =>
            \A i \in 1..Len(cycle.requests) : cycle.requests[i].conv = cycle.convId)
    /\ [][(pc = "inflight" /\ pc' # "inflight") =>
            (pc' = "reconciling" /\ cycle'.convId = cycle.convId)]_vars

\* C32: the slots a dispatch fans out to are the slots that were enabled when
\* sendMessage was invoked, also when the send auto-creates the conversation.
C32_Stated ==
    [][(pc # "inflight" /\ pc' = "inflight") =>
        {cycle'.requests[i].panelNum : i \in 1..Len(cycle'.requests)} =
            Range(cycle'.enabledAtSend)]_vars

\* C33: for every canonical message list and every enabled slot, the single
\* view of the slot shows the sequence of messages the slot's grid panel shows.
C33_Stated ==
    (view = "single" /\ currentConversation.id # 0) =>
        single = RenderGrid(currentConversation.messages, enabledProviders)[currentTab]

\* what the entries of settings say about slot n
EntriesOf(settings, n) == {e \in settings : e.num = n}

\* the registry reg = [enabledProviders, providerModels] is what settings
\* describe: a slot is disabled only by an entry with enabled false, has the
\* model of its entry when the entry has one and its default model otherwise,
\* and nothing but the four slots is enabled
Describes(settings, reg) ==
    /\ Range(reg.enabledProviders) \subseteq Slots
    /\ \A n \in Slots :
        /\ SetHas(reg.enabledProviders, n) <=>
               ~\E e \in EntriesOf(settings, n) : e.enabled = FALSE
        /\ reg.providerModels[n] =
               IF \E e \in EntriesOf(settings, n) : e.model # NoModel
               THEN (CHOOSE e \in EntriesOf(settings, n) : e.model # NoModel).model
               ELSE DefaultModels[n]

\* C34: the body saveProviderSettings writes, loaded by loadProviderSettings,
\* gives the enabled set and the four models it was written from; loading
\* settings ignores an entry of an unknown slot, and enables with its default
\* model a slot the settings do not mention.
C34_RoundTrip ==
    /\ [][(RegistryStep /\ currentConversation.id # 0) =>
            \A p \in BagToSet(patches' (-) patches) :
                LET loaded == loadProviderSettings(p.settings)
                IN  /\ Range(loaded.enabledProviders) = Range(enabledProviders')
                    /\ loaded.providerModels = providerModels']_vars
    /\ [][(UserSelectStep /\ sel'.last = "ok") =>
            LET settings == srv[sel.id].provider_settings
            IN  /\ Describes(settings,
                             [enabledProviders |-> enabledProviders',
                              providerModels |-> providerModels'])
                /\ \A n \in Slots :
                     EntriesOf(settings, n) = {} =>
                         /\ SetHas(enabledProviders', n)
                         /\ providerModels'[n] = DefaultModels[n]]_vars
    /\ [](currentConversation.id # 0 /\ patches = EmptyBag /\ sel.id = 0 =>
            \/ srv[currentConversation.id].provider_settings # SettingsSnapshot.settings
            \/ StoredRegistry(currentConversation.id) =
                   [enabled |-> Range(enabledProviders), models |-> providerModels])

\* the user disabled a slot of conversation 1, the store handled the PATCH, and
\* the conversation, selected again, came back with a slot disabled and a model
\* that is not the default
C34_Witness ==
    /\ sel.last = "ok"
    /\ ops = MaxOps
    /\ patches = EmptyBag
    /\ currentConversation.id = 1
    /\ srv[1].provider_settings = SettingsSnapshot.settings
    /\ \E n \in Slots : ~SetHas(enabledProviders, n)
    /\ \E n \in Slots : providerModels[n] # DefaultModels[n]

\* the current tab is 'all' or an enabled slot
TabValid == currentTab = "all" \/ SetHas(enabledProviders, currentTab)

\* C35: in every state reached by switchTab, toggleProvider, selectConversation
\* and goHome the current tab is 'all' or an enabled slot, and a switchTab to a
\* disabled slot changes nothing.
C35_Stated ==
    /\ []TabValid
    /\ [][\A tab \in Slots :
            (~SetHas(enabledProviders, tab) /\ switchTab(tab)) =>
                UNCHANGED <<registryVars, currentConversation, docVars, domVars>>]_vars

\* the messages of a batch that name a known vendor
Recognised(msgs) == SelectSeq(msgs, LAMBDA m : AlertProviderName(m) # NULL)

\* C36: every signal is followed by a notification in the end, also one whose
\* message names no known vendor; a notification for signals none of which
\* names a vendor reads 'the selected providers'; and a notification names
\* what the signals of its batch that name a vendor would have it name alone.
C36_FallbackText ==
    /\ \A i \in 1..(2 * MaxSignals) :
           (Len(signals) >= i /\ signals[i] # Fired) ~>
               (\E f \in Firings : f > i /\ Len(alerts) >= Cardinality({h \in Firings : h <= f}))
    /\ [](Len(alerts) = Cardinality(Firings))
    /\ [](\A j \in 1..Len(alerts) :
             alerts[j] = IF Recognised(BatchOf(j)) = <<>>
                         THEN <<"the selected providers">>
                         ELSE JoinRule(DistinctNames(Recognised(BatchOf(j)))))

\* one notification with the fallback text for a signal that names no vendor,
\* then a signal of that kind between two that name one, and a notification of
\* the two names
C36_Witness ==
    /\ signals = <<<<"API key not configured">>, Fired, ErrorMessage("nokey", "2"),
                   <<"API key not configured">>, ErrorMessage("nokey", "4"), Fired>>
    /\ alerts = << <<"the selected providers">>, <<"Claude", " & ", "Grok">> >>

\* a history strictly alternates user and assistant entries, user first
Alternates(history) ==
    \A i \in 1..Len(history) :
        history[i].role = (IF i % 2 = 1 THEN "user" ELSE "assistant")

\* the request in flight for providerId is a regeneration of an alternating
\* history that nothing has touched since regenerateResponse sent it
Regenerating(providerId) ==
    /\ legacyCalls[providerId].pending
    /\ legacyCalls[providerId].regenerated
    /\ Alternates(legacyCalls[providerId].before)
    /\ conversationHistory[providerId] = legacyCalls[providerId].conversation_history

\* C37: in the legacy page, when the request of regenerateResponse(providerId)
\* succeeds the history of the provider still alternates user and assistant
\* entries and is as long as before the regeneration; when it fails the history
\* is the one before the call.
C37_Stated ==
    [][\A providerId \in LegacyProviders :
          Regenerating(providerId) =>
              /\ (\E reply \in LegacyReplies : legacyArrive(providerId, "ok", reply)) =>
                    /\ Alternates(conversationHistory'[providerId])
                    /\ Len(conversationHistory'[providerId]) =
                            Len(legacyCalls[providerId].before)
              /\ (\E reply \in LegacyReplies : legacyArrive(providerId, "error", reply)) =>
                    conversationHistory'[providerId] = legacyCalls[providerId].before]_vars

\* the 5 s window of the last clearAllChats has not elapsed, and no undo has
\* ended it
WindowOpen == \E t \in undoTimers : t.id = lastClear.timer /\ t.kind = "hide"

\* C38: in the legacy page, the snapshot of a clearAllChats stays available
\* while the 5 s window of that clear is open, whatever the timers of earlier
\* clears do, and undoClearChats within the window restores the history, the
\* events and the system context to what they were before that clear.
C38_Stated ==
    /\ [](WindowOpen => undoSnapshot = lastClear.before)
    /\ [][(WindowOpen /\ undoClearChats) =>
            /\ conversationHistory' = lastClear.before.conversationHistory
            /\ conversationEvents' = lastClear.before.conversationEvents
            /\ currentSystemContext' = lastClear.before.currentSystemContext]_vars

\* no cache.put for `request` is still to settle
PutsSettled(request) == ~\E p \in puts : p.request = request

\* C39: the fetch handler of the service worker is network-first: when the
\* network request succeeds the page gets the network response and the cache
\* holds a copy of it once the put is over, and the page gets the cached
\* response only when the network request failed.
C39_Stated ==
    /\ [][\A request \in SwRequests, response \in NetworkResponses :
            networkResolves(request, response) =>
                /\ handlers'[request].source = "network"
                /\ handlers'[request].response = response]_vars
    /\ [](\A request \in SwRequests :
            (handlers[request].source = "network" /\ PutsSettled(request)) =>
                cache[request] = handlers[request].response)
    /\ [](\A request \in SwRequests :
            handlers[request].source = "cache" =>
                /\ handlers[request].network = "failed"
                /\ handlers[request].response = cachesMatch(request))

====
